---- MODULE Spec2Model ----
(***************************************************************************)
(* A model of the streaming Decoder of encoding_rs (src/src/lib.rs): the   *)
(* BOM life cycle, the decode_* operations with and without replacement,   *)
(* and the sizing oracle, driven by a caller that feeds a byte stream in   *)
(* chunks.                                                                 *)
(*                                                                         *)
(* Bytes and code points are integers.  Output is recorded as a sequence   *)
(* of code points; the number of code units a code point takes in the      *)
(* destination is computed by Utf8Len / Utf16Len.                          *)
(***************************************************************************)
EXTENDS Integers, Sequences, FiniteSets, TLC

\* ------------------------------------------------------------------ bounds

\* The longest byte stream the caller feeds to one Decoder.
MaxLen == 3

\* The longest run of whitespace put before and after a label.
MaxPad == 1

\* ------------------------------------------------------------- vocabulary

\* The bytes the caller's stream is drawn from: an ASCII letter and every
\* byte that occurs in a BOM (EF BB BF, FF FE, FE FF).
Bytes == {97, 187, 191, 239, 254, 255}

\* The encodings a Decoder is created from.
Encodings == {"UTF_8", "UTF_16LE", "UTF_16BE", "WINDOWS_1252", "ISO_2022_JP"}

BomHandling == {"Off", "Sniff", "Remove"}

DecoderLifeCycle ==
  {"AtStart", "AtUtf8Start", "AtUtf16BeStart", "AtUtf16LeStart",
   "SeenUtf8First", "SeenUtf8Second", "SeenUtf16BeFirst", "SeenUtf16LeFirst",
   "ConvertingWithPendingBB", "Converting", "Finished"}

REPLACEMENT_CHARACTER == 65533

Min(a, b) == IF a < b THEN a ELSE b

Max(a, b) == IF a < b THEN b ELSE a

Tail2(s, n) == SubSeq(s, n + 1, Len(s))

\* The element of a one-element set: The({e : x \in {v}}) is e with x bound to
\* the value v, which is computed once.
The(S) == CHOOSE x \in S : TRUE

\* Code units a code point takes in a UTF-8 destination.
Utf8Len(c) == IF c < 128 THEN 1 ELSE IF c < 2048 THEN 2 ELSE IF c < 65536 THEN 3 ELSE 4

\* Code units a code point takes in a UTF-16 destination.
Utf16Len(c) == IF c < 65536 THEN 1 ELSE 2

UnitLen(target, c) == IF target = "utf8" THEN Utf8Len(c) ELSE Utf16Len(c)

\* How often x occurs in the sequence s.
RECURSIVE Count(_, _)
Count(s, x) ==
  IF s = <<>> THEN 0 ELSE (IF Head(s) = x THEN 1 ELSE 0) + Count(Tail(s), x)

RECURSIVE Units(_, _)
Units(target, text) ==
  IF text = <<>> THEN 0 ELSE UnitLen(target, Head(text)) + Units(target, Tail(text))

\* ------------------------------------------------------ Encoding (catalog)

\* Encoding::for_bom: the BOM the buffer starts with, as (encoding, length).
StartsWith(buffer, prefix) ==
  Len(buffer) >= Len(prefix) /\ SubSeq(buffer, 1, Len(prefix)) = prefix

\* for_bom that takes EF BB for the UTF-8 BOM.
for_bom_ByFirstTwoBytes(buffer) ==
  IF StartsWith(buffer, <<239, 187>>) THEN <<"UTF_8", 3>>
  ELSE IF StartsWith(buffer, <<255, 254>>) THEN <<"UTF_16LE", 2>>
  ELSE IF StartsWith(buffer, <<254, 255>>) THEN <<"UTF_16BE", 2>>
  ELSE <<"None", 0>>

\* for_bom with the length its doc comment gives for the UTF-16BE BOM.
for_bom_AsDocumented(buffer) ==
  IF StartsWith(buffer, <<239, 187, 191>>) THEN <<"UTF_8", 3>>
  ELSE IF StartsWith(buffer, <<255, 254>>) THEN <<"UTF_16LE", 2>>
  ELSE IF StartsWith(buffer, <<254, 255>>) THEN <<"UTF_16BE", 3>>
  ELSE <<"None", 0>>

for_bom(buffer) ==
  IF StartsWith(buffer, <<239, 187, 191>>) THEN <<"UTF_8", 3>>
  ELSE IF StartsWith(buffer, <<255, 254>>) THEN <<"UTF_16LE", 2>>
  ELSE IF StartsWith(buffer, <<254, 255>>) THEN <<"UTF_16BE", 2>>
  ELSE <<"None", 0>>

\* -------------------------------------------------------- variant decoders
\* A variant decoder is [enc, pend]: the encoding it decodes and the bytes of
\* an incomplete sequence it has consumed (a UTF-8 lead and its continuation
\* bytes, the first byte of a UTF-16 code unit).

new_variant_decoder(enc) == [enc |-> enc, pend |-> <<>>]

\* UTF-8: bytes still missing after the lead byte b, 0 for a one-byte
\* sequence, -1 for a byte that cannot start a sequence.
Utf8Trail(b) ==
  IF b < 128 THEN 0
  ELSE IF b >= 194 /\ b <= 223 THEN 1
  ELSE IF b >= 224 /\ b <= 239 THEN 2
  ELSE IF b >= 240 /\ b <= 244 THEN 3
  ELSE -1

\* UTF-8: whether b may follow the pending bytes pend.
Utf8Continues(pend, b) ==
  IF Len(pend) = 1 /\ pend[1] = 224 THEN b >= 160 /\ b <= 191
  ELSE IF Len(pend) = 1 /\ pend[1] = 237 THEN b >= 128 /\ b <= 159
  ELSE IF Len(pend) = 1 /\ pend[1] = 240 THEN b >= 144 /\ b <= 191
  ELSE IF Len(pend) = 1 /\ pend[1] = 244 THEN b >= 128 /\ b <= 143
  ELSE b >= 128 /\ b <= 191

\* UTF-8: the code point of a complete sequence.
Utf8CodePoint(s) ==
  IF Len(s) = 1 THEN s[1]
  ELSE IF Len(s) = 2 THEN (s[1] - 192) * 64 + (s[2] - 128)
  ELSE IF Len(s) = 3 THEN (s[1] - 224) * 4096 + (s[2] - 128) * 64 + (s[3] - 128)
  ELSE (s[1] - 240) * 262144 + (s[2] - 128) * 4096 + (s[3] - 128) * 64 + (s[4] - 128)

\* windows-1252 on the bytes of the stream alphabet (none lies in 80..9F,
\* where windows-1252 departs from ISO-8859-1).
Windows1252(b) == b

\* One byte b given to variant decoder v.  kind is "out" (a code point cp is
\* written), "more" (the byte is buffered), "bad" (Malformed(seq, 0) and the
\* byte is consumed) or "unread" (Malformed(seq, 0) and the byte is left in
\* src).
VariantByte(v, b) ==
  CASE v.enc = "WINDOWS_1252" ->
         [kind |-> "out", cp |-> Windows1252(b), seq |-> 0, pend |-> <<>>]
    [] v.enc = "ISO_2022_JP" ->
         IF b < 128
         THEN [kind |-> "out", cp |-> b, seq |-> 0, pend |-> <<>>]
         ELSE [kind |-> "bad", cp |-> 0, seq |-> 1, pend |-> <<>>]
    [] v.enc = "UTF_16LE" ->
         IF v.pend = <<>>
         THEN [kind |-> "more", cp |-> 0, seq |-> 0, pend |-> <<b>>]
         ELSE [kind |-> "out", cp |-> b * 256 + v.pend[1], seq |-> 0, pend |-> <<>>]
    [] v.enc = "UTF_16BE" ->
         IF v.pend = <<>>
         THEN [kind |-> "more", cp |-> 0, seq |-> 0, pend |-> <<b>>]
         ELSE [kind |-> "out", cp |-> v.pend[1] * 256 + b, seq |-> 0, pend |-> <<>>]
    [] v.enc = "UTF_8" ->
         IF v.pend = <<>>
         THEN (IF Utf8Trail(b) = 0
               THEN [kind |-> "out", cp |-> b, seq |-> 0, pend |-> <<>>]
               ELSE IF Utf8Trail(b) > 0
               THEN [kind |-> "more", cp |-> 0, seq |-> 0, pend |-> <<b>>]
               ELSE [kind |-> "bad", cp |-> 0, seq |-> 1, pend |-> <<>>])
         ELSE (IF ~Utf8Continues(v.pend, b)
               THEN [kind |-> "unread", cp |-> 0, seq |-> Len(v.pend), pend |-> <<>>]
               ELSE IF Len(v.pend) = Utf8Trail(v.pend[1])
               THEN [kind |-> "out", cp |-> Utf8CodePoint(Append(v.pend, b)),
                     seq |-> 0, pend |-> <<>>]
               ELSE [kind |-> "more", cp |-> 0, seq |-> 0, pend |-> Append(v.pend, b)])

\* The result of a decode call without replacement: res is "InputEmpty",
\* "OutputFull", "Malformed" (then seq and extra are its two integers) or
\* "Panic" (the call did not return); read and written are the counts
\* returned, text the code points written, v the variant decoder after it.
Result(res, seq, extra, read, text, target, v) ==
  [res |-> res, seq |-> seq, extra |-> extra, read |-> read,
   written |-> Units(target, text), text |-> text, v |-> v]

\* A variant decoder that asks for room for one code unit only.
SpaceNeeded_OneUnit(enc, target) == 1

\* A variant decoder that asks for room for two code units at most, which
\* in UTF-8 is less than a U+FFFD takes.
SpaceNeeded_TwoUnits(enc, target) == IF target = "utf8" THEN 2 ELSE 1

\* The space a variant decoder wants free in the destination before it reads
\* another byte: room for the most one more byte can make it write, and so
\* for a U+FFFD whenever it returns Malformed for a byte it has read.
SpaceNeeded(enc, target) ==
  IF enc \in {"UTF_8", "UTF_16LE", "UTF_16BE"}
  THEN (IF target = "utf8" THEN 4 ELSE 2)
  ELSE (IF target = "utf8" THEN 3 ELSE 1)

\* VariantDecoder::decode_to_utf*_raw from byte i of src on, text being what
\* the call has written so far: at the end of src InputEmpty (Malformed for
\* an incomplete sequence when last), OutputFull when the destination has
\* less than SpaceNeeded left, otherwise the next byte is read.
RECURSIVE decode_raw_from(_, _, _, _, _, _, _)
decode_raw_from(v, src, i, text, dst, last, target) ==
  IF i > Len(src)
  THEN (IF last /\ v.pend # <<>>
        THEN Result("Malformed", Len(v.pend), 0, Len(src), text, target,
                    [v EXCEPT !.pend = <<>>])
        ELSE Result("InputEmpty", 0, 0, Len(src), text, target, v))
  ELSE IF dst - Units(target, text) < SpaceNeeded(v.enc, target)
  THEN Result("OutputFull", 0, 0, i - 1, text, target, v)
  ELSE The({
         CASE r.kind = "out" ->
                decode_raw_from([v EXCEPT !.pend = r.pend], src, i + 1,
                                Append(text, r.cp), dst, last, target)
           [] r.kind = "more" ->
                decode_raw_from([v EXCEPT !.pend = r.pend], src, i + 1, text,
                                dst, last, target)
           [] r.kind = "bad" ->
                Result("Malformed", r.seq, 0, i, text, target,
                       [v EXCEPT !.pend = r.pend])
           [] r.kind = "unread" ->
                Result("Malformed", r.seq, 0, i - 1, text, target,
                       [v EXCEPT !.pend = r.pend])
         : r \in {VariantByte(v, src[i])}})

decode_raw(v, src, dst, last, target) ==
  decode_raw_from(v, src, 1, <<>>, dst, last, target)

\* ------------------------------------------------------------------ Decoder
\* A Decoder is [encoding, variant, life_cycle] (struct Decoder).

\* Decoder::new with BomHandling::Off treated as BomHandling::Sniff.
InitialLifeCycle_OffAsSniff(enc, sniffing) ==
  CASE sniffing \in {"Off", "Sniff"} -> "AtStart"
    [] sniffing = "Remove" ->
         IF enc = "UTF_8" THEN "AtUtf8Start"
         ELSE IF enc = "UTF_16BE" THEN "AtUtf16BeStart"
         ELSE IF enc = "UTF_16LE" THEN "AtUtf16LeStart"
         ELSE "Converting"

\* Decoder::new with BomHandling::Remove treated as BomHandling::Sniff.
InitialLifeCycle_RemoveAsSniff(enc, sniffing) ==
  CASE sniffing = "Off" -> "Converting"
    [] sniffing \in {"Sniff", "Remove"} -> "AtStart"

\* Decoder::new with BomHandling::Sniff treated as BomHandling::Off.
InitialLifeCycle_SniffAsOff(enc, sniffing) ==
  CASE sniffing \in {"Off", "Sniff"} -> "Converting"
    [] sniffing = "Remove" ->
         IF enc = "UTF_8" THEN "AtUtf8Start"
         ELSE IF enc = "UTF_16BE" THEN "AtUtf16BeStart"
         ELSE IF enc = "UTF_16LE" THEN "AtUtf16LeStart"
         ELSE "Converting"

\* Decoder::new with the start states of UTF-16BE and UTF-16LE exchanged.
InitialLifeCycle_Utf16Swapped(enc, sniffing) ==
  CASE sniffing = "Off" -> "Converting"
    [] sniffing = "Sniff" -> "AtStart"
    [] sniffing = "Remove" ->
         IF enc = "UTF_8" THEN "AtUtf8Start"
         ELSE IF enc = "UTF_16BE" THEN "AtUtf16LeStart"
         ELSE IF enc = "UTF_16LE" THEN "AtUtf16BeStart"
         ELSE "Converting"

\* Decoder::new: the life cycle a new Decoder starts in.
InitialLifeCycle(enc, sniffing) ==
  CASE sniffing = "Off" -> "Converting"
    [] sniffing = "Sniff" -> "AtStart"
    [] sniffing = "Remove" ->
         IF enc = "UTF_8" THEN "AtUtf8Start"
         ELSE IF enc = "UTF_16BE" THEN "AtUtf16BeStart"
         ELSE IF enc = "UTF_16LE" THEN "AtUtf16LeStart"
         ELSE "Converting"

DecoderNew(enc, decoder, sniffing) ==
  [encoding |-> enc, variant |-> decoder,
   life_cycle |-> InitialLifeCycle(enc, sniffing)]

\* Encoding::new_decoder, new_decoder_with_bom_removal and
\* new_decoder_without_bom_handling.
new_decoder(enc) == DecoderNew(enc, new_variant_decoder(enc), "Sniff")

new_decoder_with_bom_removal(enc) == DecoderNew(enc, new_variant_decoder(enc), "Remove")

new_decoder_without_bom_handling(enc) == DecoderNew(enc, new_variant_decoder(enc), "Off")

NewDecoderFor(enc, sniffing) ==
  CASE sniffing = "Sniff" -> new_decoder(enc)
    [] sniffing = "Remove" -> new_decoder_with_bom_removal(enc)
    [] sniffing = "Off" -> new_decoder_without_bom_handling(enc)

\* Decoder::encoding
encoding_of(d) == d.encoding

\* The result of a Decoder call: the fields of Result with the Decoder after
\* the call as d.
DecoderResult(res, seq, extra, read, text, target, d) ==
  [res |-> res, seq |-> seq, extra |-> extra, read |-> read,
   written |-> Units(target, text), text |-> text, d |-> d]

\* A call that returns InputEmpty where it should panic.
Panicked_Returned(d, target) == DecoderResult("InputEmpty", 0, 0, 0, <<>>, target, d)

\* The call panics: it returns nothing, writes nothing and leaves the Decoder
\* as it was.
Panicked(d, target) == DecoderResult("Panic", 0, 0, 0, <<>>, target, d)

\* decode_to_utf*_checking_end: the variant decoder's call; the life cycle
\* becomes Finished iff last and the result is InputEmpty.
decode_checking_end(d, src, dst, last, target) ==
  The({DecoderResult(r.res, r.seq, r.extra, r.read, r.text, target,
         [d EXCEPT !.variant = r.v,
                   !.life_cycle = IF last /\ r.res = "InputEmpty"
                                  THEN "Finished" ELSE d.life_cycle])
       : r \in {decode_raw(d.variant, src, dst, last, target)}})

\* decode_to_utf*_checking_end_with_offset not counting the BOM as read.
decode_checking_end_with_offset_Uncounted(d, src, dst, last, offset, target) ==
  decode_checking_end([d EXCEPT !.life_cycle = "Converting"],
                      Tail2(src, offset), dst, last, target)

\* decode_to_utf*_checking_end_with_offset that leaves the Decoder at the
\* start of a stream when the call returns.
decode_checking_end_with_offset_Restarting(d, src, dst, last, offset, target) ==
  The({[r EXCEPT !.read = r.read + offset, !.d.life_cycle = "AtStart"]
       : r \in {decode_checking_end([d EXCEPT !.life_cycle = "Converting"],
                                    Tail2(src, offset), dst, last, target)}})

\* decode_to_utf*_checking_end_with_offset: the first offset bytes of src are
\* left out of the variant decoder's input and counted as read.
decode_checking_end_with_offset(d, src, dst, last, offset, target) ==
  The({[r EXCEPT !.read = r.read + offset]
       : r \in {decode_checking_end([d EXCEPT !.life_cycle = "Converting"],
                                    Tail2(src, offset), dst, last, target)}})

\* The replay that does not remember BB when EF alone was malformed.
Replay_WithoutPendingBB(d, held, src, dst, last, target) ==
  The({
    CASE f.res = "InputEmpty" ->
           The({DecoderResult(r.res, r.seq, r.extra, r.read, f.text \o r.text,
                              target, r.d)
                : r \in {decode_checking_end([d EXCEPT !.variant = f.v], src,
                                             dst - f.written, last, target)}})
      [] f.res = "Malformed" ->
           DecoderResult("Malformed", f.seq, f.extra, 0, f.text, target,
                         [d EXCEPT !.variant = f.v])
      [] f.res = "OutputFull" -> Panicked(d, target)
    : f \in {decode_raw(d.variant, held, dst, FALSE, target)}})

\* The withheld bytes held (not in src) are given to the variant decoder
\* first, with last = false, then src.  A Malformed among the withheld bytes
\* returns with read = 0; pendingBB is the life cycle to go to when only the
\* first of two withheld bytes has been read by then.
Replay(d, held, src, dst, last, target) ==
  The({
    CASE f.res = "InputEmpty" ->
           The({DecoderResult(r.res, r.seq, r.extra, r.read, f.text \o r.text,
                              target, r.d)
                : r \in {decode_checking_end([d EXCEPT !.variant = f.v], src,
                                             dst - f.written, last, target)}})
      [] f.res = "Malformed" ->
           DecoderResult("Malformed", f.seq, f.extra, 0, f.text, target,
             [d EXCEPT !.variant = f.v,
                       !.life_cycle =
                          IF Len(held) = 2 /\ f.read = 1
                          THEN "ConvertingWithPendingBB" ELSE d.life_cycle])
      [] f.res = "OutputFull" -> Panicked(d, target)
    : f \in {decode_raw(d.variant, held, dst, FALSE, target)}})

\* decode_to_utf*_after_one_potential_bom_byte forgetting the withheld byte.
decode_after_one_potential_bom_byte_Forgotten(d, src, dst, last, offset, first_byte, target) ==
  decode_checking_end([d EXCEPT !.life_cycle = "Converting"], src, dst, last, target)

\* decode_to_utf*_after_one_potential_bom_byte
decode_after_one_potential_bom_byte(d, src, dst, last, offset, first_byte, target) ==
  LET d1 == [d EXCEPT !.life_cycle = "Converting"]
  IN IF offset = 0
     THEN Replay(d1, <<first_byte>>, src, dst, last, target)
     ELSE decode_checking_end(d1, src, dst, last, target)

\* decode_to_utf*_after_two_potential_bom_bytes
decode_after_two_potential_bom_bytes(d, src, dst, last, offset, target) ==
  LET d1 == [d EXCEPT !.life_cycle = "Converting"]
  IN IF offset = 0
     THEN Replay(d1, <<239, 187>>, src, dst, last, target)
     ELSE IF offset = 1
     THEN decode_after_one_potential_bom_byte(d1, src, dst, last, 0, 239, target)
     ELSE decode_checking_end(d1, src, dst, last, target)

\* The encoding a decoder morphs into at the BOM.
Morph(d, enc) ==
  [d EXCEPT !.encoding = enc, !.variant = new_variant_decoder(enc)]

\* The first byte of a start state: the BOM lead bytes it looks for and the
\* state each leads to.
StartNext(life_cycle, b) ==
  CASE life_cycle = "AtStart" ->
         IF b = 239 THEN "SeenUtf8First"
         ELSE IF b = 254 THEN "SeenUtf16BeFirst"
         ELSE IF b = 255 THEN "SeenUtf16LeFirst"
         ELSE "Converting"
    [] life_cycle = "AtUtf8Start" -> IF b = 239 THEN "SeenUtf8First" ELSE "Converting"
    [] life_cycle = "AtUtf16BeStart" -> IF b = 254 THEN "SeenUtf16BeFirst" ELSE "Converting"
    [] life_cycle = "AtUtf16LeStart" -> IF b = 255 THEN "SeenUtf16LeFirst" ELSE "Converting"

\* decode_to_utf8_without_replacement / decode_to_utf16_without_replacement:
\* the loop over the life cycle, offset being the bytes of src taken as BOM
\* candidates so far.
RECURSIVE decode_loop(_, _, _, _, _, _)
decode_loop(d, src, dst, last, offset, target) ==
  CASE d.life_cycle = "Converting" ->
         decode_checking_end(d, src, dst, last, target)
    [] d.life_cycle \in {"AtStart", "AtUtf8Start", "AtUtf16BeStart", "AtUtf16LeStart"} ->
         IF src = <<>>
         THEN DecoderResult("InputEmpty", 0, 0, 0, <<>>, target, d)
         ELSE LET next == StartNext(d.life_cycle, src[1])
              IN decode_loop([d EXCEPT !.life_cycle = next], src, dst, last,
                             IF next = "Converting" THEN offset ELSE offset + 1,
                             target)
    [] d.life_cycle = "SeenUtf8First" ->
         IF offset >= Len(src)
         THEN (IF last
               THEN decode_after_one_potential_bom_byte(d, src, dst, last, offset, 239, target)
               ELSE DecoderResult("InputEmpty", 0, 0, offset, <<>>, target, d))
         ELSE IF src[offset + 1] = 187
         THEN decode_loop([d EXCEPT !.life_cycle = "SeenUtf8Second"], src, dst, last,
                          offset + 1, target)
         ELSE decode_after_one_potential_bom_byte(d, src, dst, last, offset, 239, target)
    [] d.life_cycle = "SeenUtf8Second" ->
         IF offset >= Len(src)
         THEN (IF last
               THEN decode_after_two_potential_bom_bytes(d, src, dst, last, offset, target)
               ELSE DecoderResult("InputEmpty", 0, 0, offset, <<>>, target, d))
         ELSE IF src[offset + 1] = 191
         THEN decode_checking_end_with_offset(Morph(d, "UTF_8"), src, dst, last,
                                              offset + 1, target)
         ELSE decode_after_two_potential_bom_bytes(d, src, dst, last, offset, target)
    [] d.life_cycle = "SeenUtf16BeFirst" ->
         IF offset >= Len(src)
         THEN (IF last
               THEN decode_after_one_potential_bom_byte(d, src, dst, last, offset, 254, target)
               ELSE DecoderResult("InputEmpty", 0, 0, offset, <<>>, target, d))
         ELSE IF src[offset + 1] = 255
         THEN decode_checking_end_with_offset(Morph(d, "UTF_16BE"), src, dst, last,
                                              offset + 1, target)
         ELSE decode_after_one_potential_bom_byte(d, src, dst, last, offset, 254, target)
    [] d.life_cycle = "SeenUtf16LeFirst" ->
         IF offset >= Len(src)
         THEN (IF last
               THEN decode_after_one_potential_bom_byte(d, src, dst, last, offset, 255, target)
               ELSE DecoderResult("InputEmpty", 0, 0, offset, <<>>, target, d))
         ELSE IF src[offset + 1] = 254
         THEN decode_checking_end_with_offset(Morph(d, "UTF_16LE"), src, dst, last,
                                              offset + 1, target)
         ELSE decode_after_one_potential_bom_byte(d, src, dst, last, offset, 255, target)
    [] d.life_cycle = "ConvertingWithPendingBB" ->
         decode_after_one_potential_bom_byte(d, src, dst, last, 0, 187, target)
    [] d.life_cycle = "Finished" -> Panicked(d, target)

decode_without_replacement(d, src, dst, last, target) ==
  decode_loop(d, src, dst, last, 0, target)

\* Decoder::decode_to_utf16 / decode_to_utf8 going on after a Malformed
\* without writing the U+FFFD.
RECURSIVE decode_replacing_from_Silent(_, _, _, _, _, _, _, _)
decode_replacing_from_Silent(d, src, dst, last, target, total_read, text, mal) ==
  LET r == decode_loop(d, Tail2(src, total_read), dst - Units(target, text),
                       last, 0, target)
      read == total_read + r.read
      written == text \o r.text
  IN CASE r.res = "Panic" ->
            [res |-> "Panic", read |-> 0, written |-> 0, text |-> <<>>,
             had_errors |-> FALSE, mal |-> mal, d |-> d]
       [] r.res \in {"InputEmpty", "OutputFull"} ->
            [res |-> r.res, read |-> read, written |-> Units(target, written),
             text |-> written, had_errors |-> mal > 0, mal |-> mal, d |-> r.d]
       [] r.res = "Malformed" ->
            decode_replacing_from_Silent(r.d, src, dst, last, target, read,
                                         written, mal + 1)

\* Decoder::decode_to_utf16 / decode_to_utf8 returning the bytes read since
\* the latest Malformed instead of total_read.
RECURSIVE decode_replacing_from_ReadReset(_, _, _, _, _, _, _, _)
decode_replacing_from_ReadReset(d, src, dst, last, target, total_read, text, mal) ==
  LET r == decode_loop(d, Tail2(src, total_read), dst - Units(target, text),
                       last, 0, target)
      written == text \o r.text
  IN CASE r.res = "Panic" ->
            [res |-> "Panic", read |-> 0, written |-> 0, text |-> <<>>,
             had_errors |-> FALSE, mal |-> mal, d |-> d]
       [] r.res \in {"InputEmpty", "OutputFull"} ->
            [res |-> r.res, read |-> r.read, written |-> Units(target, written),
             text |-> written, had_errors |-> mal > 0, mal |-> mal, d |-> r.d]
       [] r.res = "Malformed" ->
            IF Units(target, written) + UnitLen(target, REPLACEMENT_CHARACTER) > dst
            THEN [res |-> "Panic", read |-> 0, written |-> 0, text |-> <<>>,
                  had_errors |-> TRUE, mal |-> mal + 1, d |-> r.d]
            ELSE decode_replacing_from_ReadReset(r.d, src, dst, last, target,
                   total_read + r.read, Append(written, REPLACEMENT_CHARACTER), mal + 1)

\* Decoder::decode_to_utf16 / decode_to_utf8: the loop that calls the
\* operation without replacement on src[total_read..] and
\* dst[total_written..] and writes one U+FFFD for each Malformed.  text is
\* what the call has written so far (total_written code units), mal the
\* number of Malformed results seen.  Writing the U+FFFD past the end of dst
\* is an out-of-bounds index: the call panics.
RECURSIVE decode_replacing_from(_, _, _, _, _, _, _, _)
decode_replacing_from(d, src, dst, last, target, total_read, text, mal) ==
  The({
    CASE r.res = "Panic" ->
           [res |-> "Panic", read |-> 0, written |-> 0, text |-> <<>>,
            had_errors |-> FALSE, mal |-> mal, d |-> d]
      [] r.res \in {"InputEmpty", "OutputFull"} ->
           [res |-> r.res, read |-> total_read + r.read,
            written |-> Units(target, text \o r.text), text |-> text \o r.text,
            had_errors |-> mal > 0, mal |-> mal, d |-> r.d]
      [] r.res = "Malformed" ->
           IF Units(target, text \o r.text)
                + UnitLen(target, REPLACEMENT_CHARACTER) > dst
           THEN [res |-> "Panic", read |-> 0, written |-> 0, text |-> <<>>,
                 had_errors |-> TRUE, mal |-> mal + 1, d |-> r.d]
           ELSE decode_replacing_from(r.d, src, dst, last, target,
                  total_read + r.read,
                  Append(text \o r.text, REPLACEMENT_CHARACTER), mal + 1)
    : r \in {decode_without_replacement(d, Tail2(src, total_read),
                dst - Units(target, text), last, target)}})

decode_with_replacement(d, src, dst, last, target) ==
  decode_replacing_from(d, src, dst, last, target, 0, <<>>, 0)

\* ------------------------------------------------------------ sizing oracle

\* The sizing methods of a variant decoder: the worst case for byte_length
\* more bytes in the variant decoder's current state, the bytes of a pending
\* incomplete sequence included, with the room the decoder wants free
\* before it reads the last byte.

\* VariantDecoder::max_utf16_buffer_length
variant_max_utf16_buffer_length(v, byte_length) ==
  CASE v.enc = "WINDOWS_1252" -> byte_length
    [] v.enc = "ISO_2022_JP" -> byte_length + 1
    [] v.enc = "UTF_8" -> byte_length + 1 + (IF v.pend # <<>> THEN 1 ELSE 0)
    [] v.enc \in {"UTF_16LE", "UTF_16BE"} ->
         (byte_length + Len(v.pend) + 1) \div 2 + 1

\* VariantDecoder::max_utf8_buffer_length_without_replacement
variant_max_utf8_buffer_length_without_replacement(v, byte_length) ==
  CASE v.enc = "WINDOWS_1252" -> byte_length * 3
    [] v.enc = "ISO_2022_JP" -> (byte_length + 1) * 3
    [] v.enc = "UTF_8" -> byte_length + 3 + Len(v.pend)
    [] v.enc \in {"UTF_16LE", "UTF_16BE"} ->
         ((byte_length + Len(v.pend) + 1) \div 2) * 3 + 1

\* VariantDecoder::max_utf8_buffer_length
variant_max_utf8_buffer_length(v, byte_length) ==
  CASE v.enc = "WINDOWS_1252" -> byte_length * 3
    [] v.enc = "ISO_2022_JP" -> (byte_length + 1) * 3
    [] v.enc = "UTF_8" -> (byte_length + 1 + (IF v.pend # <<>> THEN 1 ELSE 0)) * 3
    [] v.enc \in {"UTF_16LE", "UTF_16BE"} ->
         ((byte_length + Len(v.pend) + 1) \div 2 + 1) * 3

\* Decoder::max_utf16_buffer_length
max_utf16_buffer_length(d, byte_length) ==
  variant_max_utf16_buffer_length(d.variant, byte_length)

\* Decoder::max_utf8_buffer_length_without_replacement
max_utf8_buffer_length_without_replacement(d, byte_length) ==
  variant_max_utf8_buffer_length_without_replacement(d.variant, byte_length)

\* Decoder::max_utf8_buffer_length
max_utf8_buffer_length(d, byte_length) ==
  variant_max_utf8_buffer_length(d.variant, byte_length)

\* ------------------------------------------------- Encoding (label lookup)
\* The generated tables, with each str as the sequence of its bytes and each
\* &'static Encoding as the name of its static.

LONGEST_LABEL_LENGTH == 19

\* Encoding::name of each encoding, as bytes.
NAMES ==
  [BIG5 |-> <<66, 105, 103, 53>>,
   EUC_JP |-> <<69, 85, 67, 45, 74, 80>>,
   EUC_KR |-> <<69, 85, 67, 45, 75, 82>>,
   GBK |-> <<71, 66, 75>>,
   IBM866 |-> <<73, 66, 77, 56, 54, 54>>,
   ISO_2022_JP |-> <<73, 83, 79, 45, 50, 48, 50, 50, 45, 74, 80>>,
   ISO_8859_10 |-> <<73, 83, 79, 45, 56, 56, 53, 57, 45, 49, 48>>,
   ISO_8859_13 |-> <<73, 83, 79, 45, 56, 56, 53, 57, 45, 49, 51>>,
   ISO_8859_14 |-> <<73, 83, 79, 45, 56, 56, 53, 57, 45, 49, 52>>,
   ISO_8859_15 |-> <<73, 83, 79, 45, 56, 56, 53, 57, 45, 49, 53>>,
   ISO_8859_16 |-> <<73, 83, 79, 45, 56, 56, 53, 57, 45, 49, 54>>,
   ISO_8859_2 |-> <<73, 83, 79, 45, 56, 56, 53, 57, 45, 50>>,
   ISO_8859_3 |-> <<73, 83, 79, 45, 56, 56, 53, 57, 45, 51>>,
   ISO_8859_4 |-> <<73, 83, 79, 45, 56, 56, 53, 57, 45, 52>>,
   ISO_8859_5 |-> <<73, 83, 79, 45, 56, 56, 53, 57, 45, 53>>,
   ISO_8859_6 |-> <<73, 83, 79, 45, 56, 56, 53, 57, 45, 54>>,
   ISO_8859_7 |-> <<73, 83, 79, 45, 56, 56, 53, 57, 45, 55>>,
   ISO_8859_8 |-> <<73, 83, 79, 45, 56, 56, 53, 57, 45, 56>>,
   ISO_8859_8_I |-> <<73, 83, 79, 45, 56, 56, 53, 57, 45, 56, 45, 73>>,
   KOI8_R |-> <<75, 79, 73, 56, 45, 82>>,
   KOI8_U |-> <<75, 79, 73, 56, 45, 85>>,
   SHIFT_JIS |-> <<83, 104, 105, 102, 116, 95, 74, 73, 83>>,
   UTF_16BE |-> <<85, 84, 70, 45, 49, 54, 66, 69>>,
   UTF_16LE |-> <<85, 84, 70, 45, 49, 54, 76, 69>>,
   UTF_8 |-> <<85, 84, 70, 45, 56>>,
   GB18030 |-> <<103, 98, 49, 56, 48, 51, 48>>,
   MACINTOSH |-> <<109, 97, 99, 105, 110, 116, 111, 115, 104>>,
   REPLACEMENT |-> <<114, 101, 112, 108, 97, 99, 101, 109, 101, 110, 116>>,
   WINDOWS_1250 |-> <<119, 105, 110, 100, 111, 119, 115, 45, 49, 50, 53, 48>>,
   WINDOWS_1251 |-> <<119, 105, 110, 100, 111, 119, 115, 45, 49, 50, 53, 49>>,
   WINDOWS_1252 |-> <<119, 105, 110, 100, 111, 119, 115, 45, 49, 50, 53, 50>>,
   WINDOWS_1253 |-> <<119, 105, 110, 100, 111, 119, 115, 45, 49, 50, 53, 51>>,
   WINDOWS_1254 |-> <<119, 105, 110, 100, 111, 119, 115, 45, 49, 50, 53, 52>>,
   WINDOWS_1255 |-> <<119, 105, 110, 100, 111, 119, 115, 45, 49, 50, 53, 53>>,
   WINDOWS_1256 |-> <<119, 105, 110, 100, 111, 119, 115, 45, 49, 50, 53, 54>>,
   WINDOWS_1257 |-> <<119, 105, 110, 100, 111, 119, 115, 45, 49, 50, 53, 55>>,
   WINDOWS_1258 |-> <<119, 105, 110, 100, 111, 119, 115, 45, 49, 50, 53, 56>>,
   WINDOWS_874 |-> <<119, 105, 110, 100, 111, 119, 115, 45, 56, 55, 52>>,
   X_MAC_CYRILLIC |-> <<120, 45, 109, 97, 99, 45, 99, 121, 114, 105, 108, 108, 105, 99>>,
   X_USER_DEFINED |-> <<120, 45, 117, 115, 101, 114, 45, 100, 101, 102, 105, 110, 101, 100>>]

name(e) == NAMES[e]

ENCODINGS_SORTED_BY_NAME ==
  <<"BIG5", "EUC_JP", "EUC_KR", "GBK", "IBM866", "ISO_2022_JP",
    "ISO_8859_10", "ISO_8859_13", "ISO_8859_14", "ISO_8859_15",
    "ISO_8859_16", "ISO_8859_2", "ISO_8859_3", "ISO_8859_4", "ISO_8859_5",
    "ISO_8859_6", "ISO_8859_7", "ISO_8859_8", "ISO_8859_8_I", "KOI8_R",
    "KOI8_U", "SHIFT_JIS", "UTF_16BE", "UTF_16LE", "UTF_8", "GB18030",
    "MACINTOSH", "REPLACEMENT", "WINDOWS_1250", "WINDOWS_1251",
    "WINDOWS_1252", "WINDOWS_1253", "WINDOWS_1254", "WINDOWS_1255",
    "WINDOWS_1256", "WINDOWS_1257", "WINDOWS_1258", "WINDOWS_874",
    "X_MAC_CYRILLIC", "X_USER_DEFINED">>

LABELS_SORTED ==
  <<<<56, 54, 54>>,  \* 866
    <<97, 110, 115, 105, 95, 120, 51, 46, 52, 45, 49, 57, 54, 56>>,  \* ansi_x3.4-1968
    <<97, 114, 97, 98, 105, 99>>,  \* arabic
    <<97, 115, 99, 105, 105>>,  \* ascii
    <<97, 115, 109, 111, 45, 55, 48, 56>>,  \* asmo-708
    <<98, 105, 103, 53>>,  \* big5
    <<98, 105, 103, 53, 45, 104, 107, 115, 99, 115>>,  \* big5-hkscs
    <<99, 104, 105, 110, 101, 115, 101>>,  \* chinese
    <<99, 110, 45, 98, 105, 103, 53>>,  \* cn-big5
    <<99, 112, 49, 50, 53, 48>>,  \* cp1250
    <<99, 112, 49, 50, 53, 49>>,  \* cp1251
    <<99, 112, 49, 50, 53, 50>>,  \* cp1252
    <<99, 112, 49, 50, 53, 51>>,  \* cp1253
    <<99, 112, 49, 50, 53, 52>>,  \* cp1254
    <<99, 112, 49, 50, 53, 53>>,  \* cp1255
    <<99, 112, 49, 50, 53, 54>>,  \* cp1256
    <<99, 112, 49, 50, 53, 55>>,  \* cp1257
    <<99, 112, 49, 50, 53, 56>>,  \* cp1258
    <<99, 112, 56, 49, 57>>,  \* cp819
    <<99, 112, 56, 54, 54>>,  \* cp866
    <<99, 115, 98, 105, 103, 53>>,  \* csbig5
    <<99, 115, 101, 117, 99, 107, 114>>,  \* cseuckr
    <<99, 115, 101, 117, 99, 112, 107, 100, 102, 109, 116, 106, 97, 112, 97, 110, 101, 115, 101>>,  \* cseucpkdfmtjapanese
    <<99, 115, 103, 98, 50, 51, 49, 50>>,  \* csgb2312
    <<99, 115, 105, 98, 109, 56, 54, 54>>,  \* csibm866
    <<99, 115, 105, 115, 111, 50, 48, 50, 50, 106, 112>>,  \* csiso2022jp
    <<99, 115, 105, 115, 111, 50, 48, 50, 50, 107, 114>>,  \* csiso2022kr
    <<99, 115, 105, 115, 111, 53, 56, 103, 98, 50, 51, 49, 50, 56, 48>>,  \* csiso58gb231280
    <<99, 115, 105, 115, 111, 56, 56, 53, 57, 54, 101>>,  \* csiso88596e
    <<99, 115, 105, 115, 111, 56, 56, 53, 57, 54, 105>>,  \* csiso88596i
    <<99, 115, 105, 115, 111, 56, 56, 53, 57, 56, 101>>,  \* csiso88598e
    <<99, 115, 105, 115, 111, 56, 56, 53, 57, 56, 105>>,  \* csiso88598i
    <<99, 115, 105, 115, 111, 108, 97, 116, 105, 110, 49>>,  \* csisolatin1
    <<99, 115, 105, 115, 111, 108, 97, 116, 105, 110, 50>>,  \* csisolatin2
    <<99, 115, 105, 115, 111, 108, 97, 116, 105, 110, 51>>,  \* csisolatin3
    <<99, 115, 105, 115, 111, 108, 97, 116, 105, 110, 52>>,  \* csisolatin4
    <<99, 115, 105, 115, 111, 108, 97, 116, 105, 110, 53>>,  \* csisolatin5
    <<99, 115, 105, 115, 111, 108, 97, 116, 105, 110, 54>>,  \* csisolatin6
    <<99, 115, 105, 115, 111, 108, 97, 116, 105, 110, 57>>,  \* csisolatin9
    <<99, 115, 105, 115, 111, 108, 97, 116, 105, 110, 97, 114, 97, 98, 105, 99>>,  \* csisolatinarabic
    <<99, 115, 105, 115, 111, 108, 97, 116, 105, 110, 99, 121, 114, 105, 108, 108, 105, 99>>,  \* csisolatincyrillic
    <<99, 115, 105, 115, 111, 108, 97, 116, 105, 110, 103, 114, 101, 101, 107>>,  \* csisolatingreek
    <<99, 115, 105, 115, 111, 108, 97, 116, 105, 110, 104, 101, 98, 114, 101, 119>>,  \* csisolatinhebrew
    <<99, 115, 107, 111, 105, 56, 114>>,  \* cskoi8r
    <<99, 115, 107, 115, 99, 53, 54, 48, 49, 49, 57, 56, 55>>,  \* csksc56011987
    <<99, 115, 109, 97, 99, 105, 110, 116, 111, 115, 104>>,  \* csmacintosh
    <<99, 115, 115, 104, 105, 102, 116, 106, 105, 115>>,  \* csshiftjis
    <<99, 121, 114, 105, 108, 108, 105, 99>>,  \* cyrillic
    <<100, 111, 115, 45, 56, 55, 52>>,  \* dos-874
    <<101, 99, 109, 97, 45, 49, 49, 52>>,  \* ecma-114
    <<101, 99, 109, 97, 45, 49, 49, 56>>,  \* ecma-118
    <<101, 108, 111, 116, 95, 57, 50, 56>>,  \* elot_928
    <<101, 117, 99, 45, 106, 112>>,  \* euc-jp
    <<101, 117, 99, 45, 107, 114>>,  \* euc-kr
    <<103, 98, 49, 56, 48, 51, 48>>,  \* gb18030
    <<103, 98, 50, 51, 49, 50>>,  \* gb2312
    <<103, 98, 95, 50, 51, 49, 50>>,  \* gb_2312
    <<103, 98, 95, 50, 51, 49, 50, 45, 56, 48>>,  \* gb_2312-80
    <<103, 98, 107>>,  \* gbk
    <<103, 114, 101, 101, 107>>,  \* greek
    <<103, 114, 101, 101, 107, 56>>,  \* greek8
    <<104, 101, 98, 114, 101, 119>>,  \* hebrew
    <<104, 122, 45, 103, 98, 45, 50, 51, 49, 50>>,  \* hz-gb-2312
    <<105, 98, 109, 56, 49, 57>>,  \* ibm819
    <<105, 98, 109, 56, 54, 54>>,  \* ibm866
    <<105, 115, 111, 45, 50, 48, 50, 50, 45, 99, 110>>,  \* iso-2022-cn
    <<105, 115, 111, 45, 50, 48, 50, 50, 45, 99, 110, 45, 101, 120, 116>>,  \* iso-2022-cn-ext
    <<105, 115, 111, 45, 50, 48, 50, 50, 45, 106, 112>>,  \* iso-2022-jp
    <<105, 115, 111, 45, 50, 48, 50, 50, 45, 107, 114>>,  \* iso-2022-kr
    <<105, 115, 111, 45, 56, 56, 53, 57, 45, 49>>,  \* iso-8859-1
    <<105, 115, 111, 45, 56, 56, 53, 57, 45, 49, 48>>,  \* iso-8859-10
    <<105, 115, 111, 45, 56, 56, 53, 57, 45, 49, 49>>,  \* iso-8859-11
    <<105, 115, 111, 45, 56, 56, 53, 57, 45, 49, 51>>,  \* iso-8859-13
    <<105, 115, 111, 45, 56, 56, 53, 57, 45, 49, 52>>,  \* iso-8859-14
    <<105, 115, 111, 45, 56, 56, 53, 57, 45, 49, 53>>,  \* iso-8859-15
    <<105, 115, 111, 45, 56, 56, 53, 57, 45, 49, 54>>,  \* iso-8859-16
    <<105, 115, 111, 45, 56, 56, 53, 57, 45, 50>>,  \* iso-8859-2
    <<105, 115, 111, 45, 56, 56, 53, 57, 45, 51>>,  \* iso-8859-3
    <<105, 115, 111, 45, 56, 56, 53, 57, 45, 52>>,  \* iso-8859-4
    <<105, 115, 111, 45, 56, 56, 53, 57, 45, 53>>,  \* iso-8859-5
    <<105, 115, 111, 45, 56, 56, 53, 57, 45, 54>>,  \* iso-8859-6
    <<105, 115, 111, 45, 56, 56, 53, 57, 45, 54, 45, 101>>,  \* iso-8859-6-e
    <<105, 115, 111, 45, 56, 56, 53, 57, 45, 54, 45, 105>>,  \* iso-8859-6-i
    <<105, 115, 111, 45, 56, 56, 53, 57, 45, 55>>,  \* iso-8859-7
    <<105, 115, 111, 45, 56, 56, 53, 57, 45, 56>>,  \* iso-8859-8
    <<105, 115, 111, 45, 56, 56, 53, 57, 45, 56, 45, 101>>,  \* iso-8859-8-e
    <<105, 115, 111, 45, 56, 56, 53, 57, 45, 56, 45, 105>>,  \* iso-8859-8-i
    <<105, 115, 111, 45, 56, 56, 53, 57, 45, 57>>,  \* iso-8859-9
    <<105, 115, 111, 45, 105, 114, 45, 49, 48, 48>>,  \* iso-ir-100
    <<105, 115, 111, 45, 105, 114, 45, 49, 48, 49>>,  \* iso-ir-101
    <<105, 115, 111, 45, 105, 114, 45, 49, 48, 57>>,  \* iso-ir-109
    <<105, 115, 111, 45, 105, 114, 45, 49, 49, 48>>,  \* iso-ir-110
    <<105, 115, 111, 45, 105, 114, 45, 49, 50, 54>>,  \* iso-ir-126
    <<105, 115, 111, 45, 105, 114, 45, 49, 50, 55>>,  \* iso-ir-127
    <<105, 115, 111, 45, 105, 114, 45, 49, 51, 56>>,  \* iso-ir-138
    <<105, 115, 111, 45, 105, 114, 45, 49, 52, 52>>,  \* iso-ir-144
    <<105, 115, 111, 45, 105, 114, 45, 49, 52, 56>>,  \* iso-ir-148
    <<105, 115, 111, 45, 105, 114, 45, 49, 52, 57>>,  \* iso-ir-149
    <<105, 115, 111, 45, 105, 114, 45, 49, 53, 55>>,  \* iso-ir-157
    <<105, 115, 111, 45, 105, 114, 45, 53, 56>>,  \* iso-ir-58
    <<105, 115, 111, 56, 56, 53, 57, 45, 49>>,  \* iso8859-1
    <<105, 115, 111, 56, 56, 53, 57, 45, 49, 48>>,  \* iso8859-10
    <<105, 115, 111, 56, 56, 53, 57, 45, 49, 49>>,  \* iso8859-11
    <<105, 115, 111, 56, 56, 53, 57, 45, 49, 51>>,  \* iso8859-13
    <<105, 115, 111, 56, 56, 53, 57, 45, 49, 52>>,  \* iso8859-14
    <<105, 115, 111, 56, 56, 53, 57, 45, 49, 53>>,  \* iso8859-15
    <<105, 115, 111, 56, 56, 53, 57, 45, 50>>,  \* iso8859-2
    <<105, 115, 111, 56, 56, 53, 57, 45, 51>>,  \* iso8859-3
    <<105, 115, 111, 56, 56, 53, 57, 45, 52>>,  \* iso8859-4
    <<105, 115, 111, 56, 56, 53, 57, 45, 53>>,  \* iso8859-5
    <<105, 115, 111, 56, 56, 53, 57, 45, 54>>,  \* iso8859-6
    <<105, 115, 111, 56, 56, 53, 57, 45, 55>>,  \* iso8859-7
    <<105, 115, 111, 56, 56, 53, 57, 45, 56>>,  \* iso8859-8
    <<105, 115, 111, 56, 56, 53, 57, 45, 57>>,  \* iso8859-9
    <<105, 115, 111, 56, 56, 53, 57, 49>>,  \* iso88591
    <<105, 115, 111, 56, 56, 53, 57, 49, 48>>,  \* iso885910
    <<105, 115, 111, 56, 56, 53, 57, 49, 49>>,  \* iso885911
    <<105, 115, 111, 56, 56, 53, 57, 49, 51>>,  \* iso885913
    <<105, 115, 111, 56, 56, 53, 57, 49, 52>>,  \* iso885914
    <<105, 115, 111, 56, 56, 53, 57, 49, 53>>,  \* iso885915
    <<105, 115, 111, 56, 56, 53, 57, 50>>,  \* iso88592
    <<105, 115, 111, 56, 56, 53, 57, 51>>,  \* iso88593
    <<105, 115, 111, 56, 56, 53, 57, 52>>,  \* iso88594
    <<105, 115, 111, 56, 56, 53, 57, 53>>,  \* iso88595
    <<105, 115, 111, 56, 56, 53, 57, 54>>,  \* iso88596
    <<105, 115, 111, 56, 56, 53, 57, 55>>,  \* iso88597
    <<105, 115, 111, 56, 56, 53, 57, 56>>,  \* iso88598
    <<105, 115, 111, 56, 56, 53, 57, 57>>,  \* iso88599
    <<105, 115, 111, 95, 56, 56, 53, 57, 45, 49>>,  \* iso_8859-1
    <<105, 115, 111, 95, 56, 56, 53, 57, 45, 49, 53>>,  \* iso_8859-15
    <<105, 115, 111, 95, 56, 56, 53, 57, 45, 49, 58, 49, 57, 56, 55>>,  \* iso_8859-1:1987
    <<105, 115, 111, 95, 56, 56, 53, 57, 45, 50>>,  \* iso_8859-2
    <<105, 115, 111, 95, 56, 56, 53, 57, 45, 50, 58, 49, 57, 56, 55>>,  \* iso_8859-2:1987
    <<105, 115, 111, 95, 56, 56, 53, 57, 45, 51>>,  \* iso_8859-3
    <<105, 115, 111, 95, 56, 56, 53, 57, 45, 51, 58, 49, 57, 56, 56>>,  \* iso_8859-3:1988
    <<105, 115, 111, 95, 56, 56, 53, 57, 45, 52>>,  \* iso_8859-4
    <<105, 115, 111, 95, 56, 56, 53, 57, 45, 52, 58, 49, 57, 56, 56>>,  \* iso_8859-4:1988
    <<105, 115, 111, 95, 56, 56, 53, 57, 45, 53>>,  \* iso_8859-5
    <<105, 115, 111, 95, 56, 56, 53, 57, 45, 53, 58, 49, 57, 56, 56>>,  \* iso_8859-5:1988
    <<105, 115, 111, 95, 56, 56, 53, 57, 45, 54>>,  \* iso_8859-6
    <<105, 115, 111, 95, 56, 56, 53, 57, 45, 54, 58, 49, 57, 56, 55>>,  \* iso_8859-6:1987
    <<105, 115, 111, 95, 56, 56, 53, 57, 45, 55>>,  \* iso_8859-7
    <<105, 115, 111, 95, 56, 56, 53, 57, 45, 55, 58, 49, 57, 56, 55>>,  \* iso_8859-7:1987
    <<105, 115, 111, 95, 56, 56, 53, 57, 45, 56>>,  \* iso_8859-8
    <<105, 115, 111, 95, 56, 56, 53, 57, 45, 56, 58, 49, 57, 56, 56>>,  \* iso_8859-8:1988
    <<105, 115, 111, 95, 56, 56, 53, 57, 45, 57>>,  \* iso_8859-9
    <<105, 115, 111, 95, 56, 56, 53, 57, 45, 57, 58, 49, 57, 56, 57>>,  \* iso_8859-9:1989
    <<107, 111, 105>>,  \* koi
    <<107, 111, 105, 56>>,  \* koi8
    <<107, 111, 105, 56, 45, 114>>,  \* koi8-r
    <<107, 111, 105, 56, 45, 114, 117>>,  \* koi8-ru
    <<107, 111, 105, 56, 45, 117>>,  \* koi8-u
    <<107, 111, 105, 56, 95, 114>>,  \* koi8_r
    <<107, 111, 114, 101, 97, 110>>,  \* korean
    <<107, 115, 95, 99, 95, 53, 54, 48, 49, 45, 49, 57, 56, 55>>,  \* ks_c_5601-1987
    <<107, 115, 95, 99, 95, 53, 54, 48, 49, 45, 49, 57, 56, 57>>,  \* ks_c_5601-1989
    <<107, 115, 99, 53, 54, 48, 49>>,  \* ksc5601
    <<107, 115, 99, 95, 53, 54, 48, 49>>,  \* ksc_5601
    <<108, 49>>,  \* l1
    <<108, 50>>,  \* l2
    <<108, 51>>,  \* l3
    <<108, 52>>,  \* l4
    <<108, 53>>,  \* l5
    <<108, 54>>,  \* l6
    <<108, 57>>,  \* l9
    <<108, 97, 116, 105, 110, 49>>,  \* latin1
    <<108, 97, 116, 105, 110, 50>>,  \* latin2
    <<108, 97, 116, 105, 110, 51>>,  \* latin3
    <<108, 97, 116, 105, 110, 52>>,  \* latin4
    <<108, 97, 116, 105, 110, 53>>,  \* latin5
    <<108, 97, 116, 105, 110, 54>>,  \* latin6
    <<108, 111, 103, 105, 99, 97, 108>>,  \* logical
    <<109, 97, 99>>,  \* mac
    <<109, 97, 99, 105, 110, 116, 111, 115, 104>>,  \* macintosh
    <<109, 115, 57, 51, 50>>,  \* ms932
    <<109, 115, 95, 107, 97, 110, 106, 105>>,  \* ms_kanji
    <<115, 104, 105, 102, 116, 45, 106, 105, 115>>,  \* shift-jis
    <<115, 104, 105, 102, 116, 95, 106, 105, 115>>,  \* shift_jis
    <<115, 106, 105, 115>>,  \* sjis
    <<115, 117, 110, 95, 101, 117, 95, 103, 114, 101, 101, 107>>,  \* sun_eu_greek
    <<116, 105, 115, 45, 54, 50, 48>>,  \* tis-620
    <<117, 110, 105, 99, 111, 100, 101, 45, 49, 45, 49, 45, 117, 116, 102, 45, 56>>,  \* unicode-1-1-utf-8
    <<117, 115, 45, 97, 115, 99, 105, 105>>,  \* us-ascii
    <<117, 116, 102, 45, 49, 54>>,  \* utf-16
    <<117, 116, 102, 45, 49, 54, 98, 101>>,  \* utf-16be
    <<117, 116, 102, 45, 49, 54, 108, 101>>,  \* utf-16le
    <<117, 116, 102, 45, 56>>,  \* utf-8
    <<117, 116, 102, 56>>,  \* utf8
    <<118, 105, 115, 117, 97, 108>>,  \* visual
    <<119, 105, 110, 100, 111, 119, 115, 45, 49, 50, 53, 48>>,  \* windows-1250
    <<119, 105, 110, 100, 111, 119, 115, 45, 49, 50, 53, 49>>,  \* windows-1251
    <<119, 105, 110, 100, 111, 119, 115, 45, 49, 50, 53, 50>>,  \* windows-1252
    <<119, 105, 110, 100, 111, 119, 115, 45, 49, 50, 53, 51>>,  \* windows-1253
    <<119, 105, 110, 100, 111, 119, 115, 45, 49, 50, 53, 52>>,  \* windows-1254
    <<119, 105, 110, 100, 111, 119, 115, 45, 49, 50, 53, 53>>,  \* windows-1255
    <<119, 105, 110, 100, 111, 119, 115, 45, 49, 50, 53, 54>>,  \* windows-1256
    <<119, 105, 110, 100, 111, 119, 115, 45, 49, 50, 53, 55>>,  \* windows-1257
    <<119, 105, 110, 100, 111, 119, 115, 45, 49, 50, 53, 56>>,  \* windows-1258
    <<119, 105, 110, 100, 111, 119, 115, 45, 51, 49, 106>>,  \* windows-31j
    <<119, 105, 110, 100, 111, 119, 115, 45, 56, 55, 52>>,  \* windows-874
    <<119, 105, 110, 100, 111, 119, 115, 45, 57, 52, 57>>,  \* windows-949
    <<120, 45, 99, 112, 49, 50, 53, 48>>,  \* x-cp1250
    <<120, 45, 99, 112, 49, 50, 53, 49>>,  \* x-cp1251
    <<120, 45, 99, 112, 49, 50, 53, 50>>,  \* x-cp1252
    <<120, 45, 99, 112, 49, 50, 53, 51>>,  \* x-cp1253
    <<120, 45, 99, 112, 49, 50, 53, 52>>,  \* x-cp1254
    <<120, 45, 99, 112, 49, 50, 53, 53>>,  \* x-cp1255
    <<120, 45, 99, 112, 49, 50, 53, 54>>,  \* x-cp1256
    <<120, 45, 99, 112, 49, 50, 53, 55>>,  \* x-cp1257
    <<120, 45, 99, 112, 49, 50, 53, 56>>,  \* x-cp1258
    <<120, 45, 101, 117, 99, 45, 106, 112>>,  \* x-euc-jp
    <<120, 45, 103, 98, 107>>,  \* x-gbk
    <<120, 45, 109, 97, 99, 45, 99, 121, 114, 105, 108, 108, 105, 99>>,  \* x-mac-cyrillic
    <<120, 45, 109, 97, 99, 45, 114, 111, 109, 97, 110>>,  \* x-mac-roman
    <<120, 45, 109, 97, 99, 45, 117, 107, 114, 97, 105, 110, 105, 97, 110>>,  \* x-mac-ukrainian
    <<120, 45, 115, 106, 105, 115>>,  \* x-sjis
    <<120, 45, 117, 115, 101, 114, 45, 100, 101, 102, 105, 110, 101, 100>>,  \* x-user-defined
    <<120, 45, 120, 45, 98, 105, 103, 53>>>>  \* x-x-big5

ENCODINGS_IN_LABEL_SORT ==
  <<"IBM866", "WINDOWS_1252", "ISO_8859_6", "WINDOWS_1252", "ISO_8859_6",
    "BIG5", "BIG5", "GBK", "BIG5", "WINDOWS_1250", "WINDOWS_1251",
    "WINDOWS_1252", "WINDOWS_1253", "WINDOWS_1254", "WINDOWS_1255",
    "WINDOWS_1256", "WINDOWS_1257", "WINDOWS_1258", "WINDOWS_1252", "IBM866",
    "BIG5", "EUC_KR", "EUC_JP", "GBK", "IBM866", "ISO_2022_JP",
    "REPLACEMENT", "GBK", "ISO_8859_6", "ISO_8859_6", "ISO_8859_8",
    "ISO_8859_8_I", "WINDOWS_1252", "ISO_8859_2", "ISO_8859_3", "ISO_8859_4",
    "WINDOWS_1254", "ISO_8859_10", "ISO_8859_15", "ISO_8859_6", "ISO_8859_5",
    "ISO_8859_7", "ISO_8859_8", "KOI8_R", "EUC_KR", "MACINTOSH", "SHIFT_JIS",
    "ISO_8859_5", "WINDOWS_874", "ISO_8859_6", "ISO_8859_7", "ISO_8859_7",
    "EUC_JP", "EUC_KR", "GB18030", "GBK", "GBK", "GBK", "GBK", "ISO_8859_7",
    "ISO_8859_7", "ISO_8859_8", "REPLACEMENT", "WINDOWS_1252", "IBM866",
    "REPLACEMENT", "REPLACEMENT", "ISO_2022_JP", "REPLACEMENT",
    "WINDOWS_1252", "ISO_8859_10", "WINDOWS_874", "ISO_8859_13",
    "ISO_8859_14", "ISO_8859_15", "ISO_8859_16", "ISO_8859_2", "ISO_8859_3",
    "ISO_8859_4", "ISO_8859_5", "ISO_8859_6", "ISO_8859_6", "ISO_8859_6",
    "ISO_8859_7", "ISO_8859_8", "ISO_8859_8", "ISO_8859_8_I", "WINDOWS_1254",
    "WINDOWS_1252", "ISO_8859_2", "ISO_8859_3", "ISO_8859_4", "ISO_8859_7",
    "ISO_8859_6", "ISO_8859_8", "ISO_8859_5", "WINDOWS_1254", "EUC_KR",
    "ISO_8859_10", "GBK", "WINDOWS_1252", "ISO_8859_10", "WINDOWS_874",
    "ISO_8859_13", "ISO_8859_14", "ISO_8859_15", "ISO_8859_2", "ISO_8859_3",
    "ISO_8859_4", "ISO_8859_5", "ISO_8859_6", "ISO_8859_7", "ISO_8859_8",
    "WINDOWS_1254", "WINDOWS_1252", "ISO_8859_10", "WINDOWS_874",
    "ISO_8859_13", "ISO_8859_14", "ISO_8859_15", "ISO_8859_2", "ISO_8859_3",
    "ISO_8859_4", "ISO_8859_5", "ISO_8859_6", "ISO_8859_7", "ISO_8859_8",
    "WINDOWS_1254", "WINDOWS_1252", "ISO_8859_15", "WINDOWS_1252",
    "ISO_8859_2", "ISO_8859_2", "ISO_8859_3", "ISO_8859_3", "ISO_8859_4",
    "ISO_8859_4", "ISO_8859_5", "ISO_8859_5", "ISO_8859_6", "ISO_8859_6",
    "ISO_8859_7", "ISO_8859_7", "ISO_8859_8", "ISO_8859_8", "WINDOWS_1254",
    "WINDOWS_1254", "KOI8_R", "KOI8_R", "KOI8_R", "KOI8_U", "KOI8_U",
    "KOI8_R", "EUC_KR", "EUC_KR", "EUC_KR", "EUC_KR", "EUC_KR",
    "WINDOWS_1252", "ISO_8859_2", "ISO_8859_3", "ISO_8859_4", "WINDOWS_1254",
    "ISO_8859_10", "ISO_8859_15", "WINDOWS_1252", "ISO_8859_2", "ISO_8859_3",
    "ISO_8859_4", "WINDOWS_1254", "ISO_8859_10", "ISO_8859_8_I", "MACINTOSH",
    "MACINTOSH", "SHIFT_JIS", "SHIFT_JIS", "SHIFT_JIS", "SHIFT_JIS",
    "SHIFT_JIS", "ISO_8859_7", "WINDOWS_874", "UTF_8", "WINDOWS_1252",
    "UTF_16LE", "UTF_16BE", "UTF_16LE", "UTF_8", "UTF_8", "ISO_8859_8",
    "WINDOWS_1250", "WINDOWS_1251", "WINDOWS_1252", "WINDOWS_1253",
    "WINDOWS_1254", "WINDOWS_1255", "WINDOWS_1256", "WINDOWS_1257",
    "WINDOWS_1258", "SHIFT_JIS", "WINDOWS_874", "EUC_KR", "WINDOWS_1250",
    "WINDOWS_1251", "WINDOWS_1252", "WINDOWS_1253", "WINDOWS_1254",
    "WINDOWS_1255", "WINDOWS_1256", "WINDOWS_1257", "WINDOWS_1258", "EUC_JP",
    "GBK", "X_MAC_CYRILLIC", "MACINTOSH", "X_MAC_CYRILLIC", "SHIFT_JIS",
    "X_USER_DEFINED", "BIG5">>


\* Option<&'static Encoding>.
SomeEncoding(e) == [some |-> TRUE, encoding |-> e, panic |-> FALSE]

NoEncoding == [some |-> FALSE, encoding |-> "none", panic |-> FALSE]

\* An index past the end of the 19-byte buffer `trimmed`.
OutOfBounds == [some |-> FALSE, encoding |-> "none", panic |-> TRUE]

\* 0x09 | 0x0A | 0x0C | 0x0D | 0x20.
IsLabelWhitespace(byte) == byte \in {9, 10, 12, 13, 32}

\* The byte for_label stores for `byte`, with no change for b'A'...b'Z'.
Stored_AsIs(byte) == byte

\* The byte for_label stores for `byte`: *byte + 0x20 for b'A'...b'Z'.
Stored(byte) == IF byte \in 65..90 THEN byte + 32 ELSE byte

\* The search at the end of for_label: the encoding at the index of the
\* first label equal to candidate.
SearchLabels(candidate) ==
  IF \E i \in 1..Len(LABELS_SORTED) : LABELS_SORTED[i] = candidate
  THEN SomeEncoding(ENCODINGS_IN_LABEL_SORT[
         CHOOSE i \in 1..Len(LABELS_SORTED) :
           /\ LABELS_SORTED[i] = candidate
           /\ \A j \in 1..(i - 1) : LABELS_SORTED[j] # candidate])
  ELSE NoEncoding

\* The three loops of for_label over label from its i-th byte on; trimmed
\* holds the first trimmed_pos bytes of the buffer.
RECURSIVE for_label_after(_, _, _)
for_label_after(label, i, trimmed) ==
  IF i > Len(label) THEN SearchLabels(trimmed)
  ELSE IF IsLabelWhitespace(label[i]) THEN for_label_after(label, i + 1, trimmed)
  ELSE NoEncoding

\* The loop 'inside' without the return at trimmed_pos ==
\* LONGEST_LABEL_LENGTH.
RECURSIVE for_label_inside_Unchecked(_, _, _)
for_label_inside_Unchecked(label, i, trimmed) ==
  IF i > Len(label) THEN for_label_after(label, i, trimmed)
  ELSE IF IsLabelWhitespace(label[i]) THEN for_label_after(label, i + 1, trimmed)
  ELSE IF Len(trimmed) >= LONGEST_LABEL_LENGTH THEN OutOfBounds
  ELSE for_label_inside_Unchecked(label, i + 1, Append(trimmed, Stored(label[i])))

RECURSIVE for_label_inside(_, _, _)
for_label_inside(label, i, trimmed) ==
  IF i > Len(label) THEN for_label_after(label, i, trimmed)
  ELSE IF IsLabelWhitespace(label[i]) THEN for_label_after(label, i + 1, trimmed)
  ELSE IF Len(trimmed) >= LONGEST_LABEL_LENGTH THEN OutOfBounds
  ELSE IF Len(trimmed) + 1 = LONGEST_LABEL_LENGTH THEN NoEncoding
  ELSE for_label_inside(label, i + 1, Append(trimmed, Stored(label[i])))

RECURSIVE for_label_before(_, _)
for_label_before(label, i) ==
  IF i > Len(label) THEN NoEncoding
  ELSE IF IsLabelWhitespace(label[i]) THEN for_label_before(label, i + 1)
  ELSE for_label_inside(label, i + 1, <<Stored(label[i])>>)

\* Encoding::for_label.
for_label(label) == for_label_before(label, 1)

\* for_label_no_replacement that passes on whatever for_label found.
for_label_no_replacement_Same(label) == for_label(label)

\* Encoding::for_label_no_replacement.
for_label_no_replacement(label) ==
  The({IF r.panic THEN r
       ELSE IF ~r.some THEN NoEncoding
       ELSE IF r.encoding = "REPLACEMENT" THEN NoEncoding
       ELSE SomeEncoding(r.encoding)
       : r \in {for_label(label)}})

\* Encoding::for_name: the first i with name == ENCODINGS_SORTED_BY_NAME[i]
\* .name() gives ENCODINGS_IN_LABEL_SORT[i].
for_name(bytes) ==
  IF \E i \in 1..Len(ENCODINGS_SORTED_BY_NAME) :
       bytes = name(ENCODINGS_SORTED_BY_NAME[i])
  THEN SomeEncoding(ENCODINGS_IN_LABEL_SORT[
         CHOOSE i \in 1..Len(ENCODINGS_SORTED_BY_NAME) :
           /\ bytes = name(ENCODINGS_SORTED_BY_NAME[i])
           /\ \A j \in 1..(i - 1) : bytes # name(ENCODINGS_SORTED_BY_NAME[j])])
  ELSE NoEncoding

\* ---------------------------------------------- Encoding (one-shot decoding)
\* The non-streaming decode methods of Encoding.  The Cow they return is
\* modelled as [cow, text, had_errors, decoder, panic]: cow is "Borrowed" or
\* "Owned", text the characters of the str, decoder whether a Decoder was
\* created, panic whether the call panicked instead of returning.

\* Encoding::is_ascii_compatible.
is_ascii_compatible(enc) ==
  IF enc = "REPLACEMENT" \/ enc = "UTF_16BE" \/ enc = "UTF_16LE" \/ enc = "ISO_2022_JP"
  THEN FALSE
  ELSE TRUE

\* ascii_valid_up_to: the length of the longest prefix of ASCII bytes.
ascii_valid_up_to(bytes) ==
  IF \A i \in 1..Len(bytes) : bytes[i] < 128
  THEN Len(bytes)
  ELSE (CHOOSE i \in 1..Len(bytes) :
          bytes[i] >= 128 /\ \A j \in 1..(i - 1) : bytes[j] < 128) - 1

\* utf8_valid_up_to: the length of the longest prefix that is valid UTF-8;
\* i is the 1-based index of the next lead byte.
RECURSIVE utf8_valid_from(_, _)
utf8_valid_from(bytes, i) ==
  IF i > Len(bytes) THEN i - 1
  ELSE IF Utf8Trail(bytes[i]) < 0 THEN i - 1
  ELSE IF i + Utf8Trail(bytes[i]) > Len(bytes) THEN i - 1
  ELSE IF \A k \in 1..Utf8Trail(bytes[i]) :
            Utf8Continues(SubSeq(bytes, i, i + k - 1), bytes[i + k])
  THEN utf8_valid_from(bytes, i + Utf8Trail(bytes[i]) + 1)
  ELSE i - 1

utf8_valid_up_to(bytes) == utf8_valid_from(bytes, 1)

\* The characters of a str whose bytes are `bytes` (valid UTF-8).
RECURSIVE StrChars(_)
StrChars(bytes) ==
  IF bytes = <<>> THEN <<>>
  ELSE <<Utf8CodePoint(SubSeq(bytes, 1, 1 + Utf8Trail(bytes[1])))>>
         \o StrChars(Tail2(bytes, 1 + Utf8Trail(bytes[1])))

Borrowed(bytes) ==
  [cow |-> "Borrowed", text |-> StrChars(bytes), had_errors |-> FALSE,
   decoder |-> FALSE, panic |-> FALSE]

Owned(text, had_errors) ==
  [cow |-> "Owned", text |-> text, had_errors |-> had_errors,
   decoder |-> TRUE, panic |-> FALSE]

\* unreachable!(), or a panic of the Decoder.
Unreachable ==
  [cow |-> "Owned", text |-> <<>>, had_errors |-> FALSE, decoder |-> TRUE,
   panic |-> TRUE]

\* Decoder::decode_to_string: decode_to_utf8 into the spare capacity of the
\* String, which holds old_len bytes.
decode_to_string(d, src, old_len, capacity, last) ==
  decode_with_replacement(d, src, capacity - old_len, last, "utf8")

\* Decoder::decode_to_string_without_replacement.
decode_to_string_without_replacement(d, src, old_len, capacity, last) ==
  decode_without_replacement(d, src, capacity - old_len, last, "utf8")

\* decode_without_bom_handling that never takes the borrowing path.
decode_without_bom_handling_AlwaysOwned(enc, bytes) ==
  The({IF r.res = "InputEmpty" THEN Owned(r.text, r.had_errors) ELSE Unreachable
       : r \in {decode_to_string(new_decoder_without_bom_handling(enc), bytes, 0,
                   max_utf8_buffer_length(new_decoder_without_bom_handling(enc),
                                          Len(bytes)), TRUE)}})

\* Encoding::decode_without_bom_handling.
decode_without_bom_handling(enc, bytes) ==
  The({
    IF is_ascii_compatible(enc) /\ valid_up_to = Len(bytes)
    THEN Borrowed(bytes)
    ELSE The({
      The({
        IF r.res = "InputEmpty"
        THEN Owned(StrChars(SubSeq(bytes, 1, prefix)) \o r.text, r.had_errors)
        ELSE Unreachable
        : r \in {decode_to_string(new_decoder_without_bom_handling(enc),
                    Tail2(bytes, prefix), prefix,
                    prefix + max_utf8_buffer_length(
                               new_decoder_without_bom_handling(enc),
                               Len(bytes) - prefix),
                    TRUE)}})
      : prefix \in {IF is_ascii_compatible(enc) THEN valid_up_to ELSE 0}})
    : valid_up_to \in {IF enc = "UTF_8" THEN utf8_valid_up_to(bytes)
                       ELSE ascii_valid_up_to(bytes)}})

\* Encoding::decode that decodes in the receiver's encoding whatever the BOM.
decode_IgnoringBom(enc, bytes) ==
  The({[cow |-> r.cow, text |-> r.text, encoding |-> enc,
        had_errors |-> r.had_errors, decoder |-> r.decoder, panic |-> r.panic]
       : r \in {decode_without_bom_handling(enc, bytes)}})

\* Encoding::decode: the record of decode_without_bom_handling with the
\* encoding used as `encoding`.
decode(enc, bytes) ==
  The({
    The({[cow |-> r.cow, text |-> r.text, encoding |-> e[1],
          had_errors |-> r.had_errors, decoder |-> r.decoder, panic |-> r.panic]
         : r \in {decode_without_bom_handling(e[1], Tail2(bytes, e[2]))}})
    : e \in {IF for_bom(bytes)[1] # "None" THEN for_bom(bytes) ELSE <<enc, 0>>}})

\* Encoding::decode_with_bom_removal that removes the BOM of any encoding.
decode_with_bom_removal_AnyBom(enc, bytes) ==
  decode_without_bom_handling(enc, Tail2(bytes, for_bom(bytes)[2]))

\* Encoding::decode_with_bom_removal.
decode_with_bom_removal(enc, bytes) ==
  decode_without_bom_handling(enc,
    IF enc = "UTF_8" /\ StartsWith(bytes, <<239, 187, 191>>) THEN Tail2(bytes, 3)
    ELSE IF enc = "UTF_16LE" /\ StartsWith(bytes, <<255, 254>>) THEN Tail2(bytes, 2)
    ELSE IF enc = "UTF_16BE" /\ StartsWith(bytes, <<254, 255>>) THEN Tail2(bytes, 2)
    ELSE bytes)

\* The Option the method without replacement returns: some is whether it is
\* Some, and then the fields are those of the Cow.
SomeOf(r) ==
  [some |-> TRUE, cow |-> r.cow, text |-> r.text, decoder |-> r.decoder,
   panic |-> r.panic]

None(decoder) ==
  [some |-> FALSE, cow |-> "None", text |-> <<>>, decoder |-> decoder,
   panic |-> FALSE]

\* What the method without replacement does with what the Decoder returned.
\* prefix is the text of the bytes copied before the Decoder was created.
OptionOf_MalformedAsSome(prefix, r) ==
  IF r.res \in {"InputEmpty", "Malformed"}
  THEN SomeOf(Owned(prefix \o r.text, FALSE))
  ELSE SomeOf(Unreachable)

OptionOf(prefix, r) ==
  CASE r.res = "InputEmpty" -> SomeOf(Owned(prefix \o r.text, FALSE))
    [] r.res = "Malformed" -> None(TRUE)
    [] OTHER -> SomeOf(Unreachable)

\* Encoding::decode_without_bom_handling_and_without_replacement.
decode_without_bom_handling_and_without_replacement(enc, bytes) ==
  IF enc = "UTF_8"
  THEN (IF utf8_valid_up_to(bytes) = Len(bytes)
        THEN SomeOf(Borrowed(bytes))
        ELSE None(FALSE))
  ELSE IF is_ascii_compatible(enc)
  THEN The({
         IF valid_up_to = Len(bytes)
         THEN SomeOf(Borrowed(bytes))
         ELSE OptionOf(SubSeq(bytes, 1, valid_up_to),
                decode_to_string_without_replacement(
                  new_decoder_without_bom_handling(enc),
                  Tail2(bytes, valid_up_to), valid_up_to,
                  valid_up_to + max_utf8_buffer_length(
                                  new_decoder_without_bom_handling(enc),
                                  Len(bytes) - valid_up_to),
                  TRUE))
         : valid_up_to \in {ascii_valid_up_to(bytes)}})
  ELSE OptionOf(<<>>,
         decode_to_string_without_replacement(
           new_decoder_without_bom_handling(enc), bytes, 0,
           max_utf8_buffer_length_without_replacement(
             new_decoder_without_bom_handling(enc), Len(bytes)),
           TRUE))

\* ------------------------------------------------- Encoding (output encoding)

\* The encodings new_encoder() is called on: those of the model and the
\* replacement encoding, which has no encoder of its own.
Receivers == Encodings \cup {"REPLACEMENT"}

\* Encoding::output_encoding
output_encoding(enc) ==
  IF enc \in {"REPLACEMENT", "UTF_16BE", "UTF_16LE"} THEN "UTF_8" ELSE enc

\* Encoding::can_encode_everything
can_encode_everything(enc) == output_encoding(enc) = "UTF_8"

\* ------------------------------------------------------- variant encoders
\* The per-encoding encoders are not part of lib.rs; they are modelled from
\* the contract lib.rs and the specification state for them: an encoder reads
\* whole characters, writes only what fits, reports a character it cannot
\* encode as Unmappable after consuming it, and ISO-2022-JP is back in its
\* ASCII state whenever it reports Unmappable or ends the stream.

\* The characters of the model: a, the euro sign, HIRAGANA LETTER A and the
\* last scalar value.
Chars == {97, 8364, 12354, 1114111}

ESC == 27

\* The escape sequences of ISO-2022-JP: to ASCII and to JIS X 0208.
ToAscii == <<ESC, 40, 66>>

ToJis0208 == <<ESC, 36, 66>>

new_variant_encoder(enc) ==
  [enc |-> enc, state |-> IF enc = "ISO_2022_JP" THEN "Ascii" ELSE "none"]

\* The UTF-8 form of the scalar value c.
Utf8Bytes(c) ==
  IF c < 128 THEN <<c>>
  ELSE IF c < 2048 THEN <<192 + (c \div 64), 128 + (c % 64)>>
  ELSE IF c < 65536
    THEN <<224 + (c \div 4096), 128 + ((c \div 64) % 64), 128 + (c % 64)>>
  ELSE <<240 + (c \div 262144), 128 + ((c \div 4096) % 64),
         128 + ((c \div 64) % 64), 128 + (c % 64)>>

\* What the encoder v does with the character c: the bytes it writes, whether
\* it reports c as unmappable after them, and the state it is left in.
EncodeChar(v, c) ==
  CASE v.enc = "UTF_8" ->
         [bytes |-> Utf8Bytes(c), unmappable |-> FALSE, state |-> v.state]
    [] v.enc = "WINDOWS_1252" ->
         IF c < 128 \/ (c >= 160 /\ c <= 255)
         THEN [bytes |-> <<c>>, unmappable |-> FALSE, state |-> v.state]
         ELSE IF c = 8364
         THEN [bytes |-> <<128>>, unmappable |-> FALSE, state |-> v.state]
         ELSE [bytes |-> <<>>, unmappable |-> TRUE, state |-> v.state]
    [] v.enc = "ISO_2022_JP" ->
         IF c < 128
         THEN [bytes |-> (IF v.state = "Ascii" THEN <<>> ELSE ToAscii) \o <<c>>,
               unmappable |-> FALSE, state |-> "Ascii"]
         ELSE IF c = 12354
         THEN [bytes |-> (IF v.state = "Jis0208" THEN <<>> ELSE ToJis0208)
                         \o <<36, 34>>,
               unmappable |-> FALSE, state |-> "Jis0208"]
         ELSE [bytes |-> IF v.state = "Ascii" THEN <<>> ELSE ToAscii,
               unmappable |-> TRUE, state |-> "Ascii"]

\* The room the encoder asks for before it takes the character c: what it
\* writes for c, and one byte more when c is unmappable, which is the room
\* lib.rs relies on when it asserts that NCR_EXTRA + 1 bytes are left.
EncoderSpaceNeeded_NoSpare(v, c) == Len(EncodeChar(v, c).bytes)

EncoderSpaceNeeded(v, c) ==
  Len(EncodeChar(v, c).bytes) + (IF EncodeChar(v, c).unmappable THEN 1 ELSE 0)

EncoderReturn(res, c, chars, bytes, v) ==
  [res |-> res, unmappable |-> c, chars |-> chars, bytes |-> bytes,
   variant |-> v]

\* VariantEncoder::encode_from_*_raw from the character i of src on, with
\* bytes written so far into a destination dst bytes long.
RECURSIVE encode_raw_from(_, _, _, _, _, _)
encode_raw_from(v, src, i, bytes, dst, last) ==
  IF i > Len(src)
  THEN IF last /\ v.state = "Jis0208"
       THEN IF dst - Len(bytes) < Len(ToAscii)
            THEN EncoderReturn("OutputFull", 0, i - 1, bytes, v)
            ELSE EncoderReturn("InputEmpty", 0, i - 1, bytes \o ToAscii,
                               [v EXCEPT !.state = "Ascii"])
       ELSE EncoderReturn("InputEmpty", 0, i - 1, bytes, v)
  ELSE IF dst - Len(bytes) < EncoderSpaceNeeded(v, src[i])
  THEN EncoderReturn("OutputFull", 0, i - 1, bytes, v)
  ELSE The({IF e.unmappable
            THEN EncoderReturn("Unmappable", src[i], i, bytes \o e.bytes,
                               [v EXCEPT !.state = e.state])
            ELSE encode_raw_from([v EXCEPT !.state = e.state], src, i + 1,
                                 bytes \o e.bytes, dst, last)
            : e \in {EncodeChar(v, src[i])}})

encode_raw(v, src, dst, last) == encode_raw_from(v, src, 1, <<>>, dst, last)

\* VariantEncoder::max_buffer_length_from_utf16_without_replacement
variant_max_from_utf16(enc, u16_length) ==
  CASE enc = "UTF_8" -> 3 * u16_length
    [] enc = "ISO_2022_JP" -> 5 * u16_length + Len(ToAscii)
    [] OTHER -> u16_length

\* VariantEncoder::max_buffer_length_from_utf8_without_replacement
variant_max_from_utf8(enc, byte_length) ==
  CASE enc = "UTF_8" -> byte_length
    [] enc = "ISO_2022_JP" -> 4 * byte_length + Len(ToAscii)
    [] OTHER -> byte_length

\* ------------------------------------------------------------------ Encoder

NCR_EXTRA == 9

\* Encoder::new
EncoderNew(enc, encoder) == [encoding |-> enc, variant |-> encoder]

new_encoder_OfSelf(enc) == EncoderNew(enc, new_variant_encoder(enc))

\* Encoding::new_encoder
new_encoder(enc) ==
  EncoderNew(output_encoding(enc), new_variant_encoder(output_encoding(enc)))

\* Encoder::encoding
encoder_encoding(e) == e.encoding

\* Encoder::max_buffer_length_from_utf16_without_replacement
max_buffer_length_from_utf16_without_replacement(e, u16_length) ==
  variant_max_from_utf16(e.variant.enc, u16_length)

\* Encoder::max_buffer_length_from_utf8_without_replacement
max_buffer_length_from_utf8_without_replacement(e, byte_length) ==
  variant_max_from_utf8(e.variant.enc, byte_length)

max_buffer_length_from_utf16_if_no_unmappables_NoReserve(e, u16_length) ==
  max_buffer_length_from_utf16_without_replacement(e, u16_length)

\* Encoder::max_buffer_length_from_utf16_if_no_unmappables
max_buffer_length_from_utf16_if_no_unmappables(e, u16_length) ==
  max_buffer_length_from_utf16_without_replacement(e, u16_length)
  + (IF can_encode_everything(encoder_encoding(e)) THEN 0 ELSE NCR_EXTRA)

\* Encoder::max_buffer_length_from_utf8_if_no_unmappables
max_buffer_length_from_utf8_if_no_unmappables(e, byte_length) ==
  max_buffer_length_from_utf8_without_replacement(e, byte_length)
  + (IF can_encode_everything(encoder_encoding(e)) THEN 0 ELSE NCR_EXTRA)

\* The bytes of a destination nothing has been written to.
Stale == 0

Blank(n) == [i \in 1..n |-> Stale]

NcrLen_Strict(number) ==
  IF number > 1000000 THEN 10
  ELSE IF number > 100000 THEN 9
  ELSE IF number > 10000 THEN 8
  ELSE IF number > 1000 THEN 7
  ELSE IF number > 100 THEN 6
  ELSE 5

\* The length write_ncr computes for the number of a character.
NcrLen(number) ==
  IF number >= 1000000 THEN 10
  ELSE IF number >= 100000 THEN 9
  ELSE IF number >= 10000 THEN 8
  ELSE IF number >= 1000 THEN 7
  ELSE IF number >= 100 THEN 6
  ELSE 5

\* The digit loop of write_ncr; pos counts from 0 as in the source.
RECURSIVE NcrDigits(_, _, _)
NcrDigits(dst, pos, number) ==
  IF number < 10
  THEN [dst EXCEPT ![pos + 1] = 48 + (number % 10)]
  ELSE NcrDigits([dst EXCEPT ![pos + 1] = 48 + (number % 10)], pos - 1,
                 number \div 10)

\* write_ncr on the character unmappable and the slice dst, in a build with
\* (debug) or without debug assertions.  A failed assertion and an index
\* past the end of dst both panic.
write_ncr(unmappable, dst, debug) ==
  IF debug /\ unmappable < 10 THEN [len |-> 0, dst |-> dst, panic |-> TRUE]
  ELSE IF NcrLen(unmappable) > Len(dst)
  THEN [len |-> 0, dst |-> dst, panic |-> TRUE]
  ELSE [len |-> NcrLen(unmappable),
        dst |-> [NcrDigits([dst EXCEPT ![NcrLen(unmappable)] = 59],
                           NcrLen(unmappable) - 2, unmappable)
                 EXCEPT ![1] = 38, ![2] = 35],
        panic |-> FALSE]

\* What an encode call gives back, from the state t its loop ended in:
\* the result, the code units and characters of src it read, the bytes it
\* wrote, the flag it returns, how many references it wrote, the least room
\* dst had left when it handled an Unmappable, and the encoder afterwards.
\* panic names what stopped a call that did not return.
EncodeReturn(res, panic, src, source, t) ==
  [res |-> res, panic |-> panic,
   read |-> Units(source, SubSeq(src, 1, t.chars)), chars |-> t.chars,
   written |-> Len(t.bytes), bytes |-> t.bytes, had_unmappables |-> t.had,
   ncrs |-> t.ncrs, room |-> t.room, unmappable |-> 0, encoder |-> t.e]

\* The state of an encode call before its first step.
EncodeStart(e, dst) ==
  [chars |-> 0, bytes |-> <<>>, had |-> FALSE, ncrs |-> 0, room |-> dst,
   e |-> e]

\* Encoder::encode_from_utf16_without_replacement and
\* Encoder::encode_from_utf8_without_replacement; source tells them apart.
encode_without_replacement(e, src, dst, last, source) ==
  The({[EncodeReturn(r.res, "none", src, source,
                     [EncodeStart(e, dst) EXCEPT
                        !.chars = r.chars, !.bytes = r.bytes,
                        !.e = [e EXCEPT !.variant = r.variant]])
        EXCEPT !.unmappable = r.unmappable]
       : r \in {encode_raw(e.variant, src, dst, last)}})

\* The slice of src after its first chars characters.
RestOf(src, chars) == SubSeq(src, chars + 1, Len(src))

\* The state of the loop after the variant encoder returned r.
AfterRaw(t, r) ==
  [t EXCEPT !.chars = t.chars + r.chars, !.bytes = t.bytes \o r.bytes,
            !.e = r.encoder]

\* The state of the loop when it handles Unmappable with dst bytes in all.
AtUnmappable(t, dst) ==
  [t EXCEPT !.had = TRUE, !.room = Min(t.room, dst - Len(t.bytes))]

\* The state of the loop after write_ncr returned n.
AfterNcr(t, n) ==
  [t EXCEPT !.bytes = t.bytes \o SubSeq(n.dst, 1, n.len), !.ncrs = t.ncrs + 1]

\* The loop of encode_from_utf16 and encode_from_utf8 from the state t on.
\* check says whether the loop looks at total_written after a reference,
\* which encode_from_utf8 does and encode_from_utf16 does not.  Taking the
\* slice dst[total_written..effective_dst_len] panics when total_written is
\* past effective_dst_len.
RECURSIVE encode_loop(_, _, _, _, _, _, _, _)
encode_loop(t, src, dst, effective_dst_len, last, source, check, debug) ==
  IF Len(t.bytes) > effective_dst_len
  THEN EncodeReturn("Panic", "slice", src, source, t)
  ELSE The({
    IF r.res \in {"InputEmpty", "OutputFull"}
    THEN EncodeReturn(r.res, "none", src, source, AfterRaw(t, r))
    ELSE The({
      IF debug /\ u.room < NCR_EXTRA + 1
      THEN EncodeReturn("Panic", "assert", src, source, u)
      ELSE The({
        IF n.panic
        THEN EncodeReturn("Panic", "write_ncr", src, source, u)
        ELSE IF check /\ Len(u.bytes) + n.len >= effective_dst_len
        THEN EncodeReturn("OutputFull", "none", src, source, AfterNcr(u, n))
        ELSE encode_loop(AfterNcr(u, n), src, dst, effective_dst_len, last,
                         source, check, debug)
        : n \in {write_ncr(r.unmappable, Blank(dst - Len(u.bytes)), debug)}})
      : u \in {AtUnmappable(AfterRaw(t, r), dst)}})
    : r \in {encode_without_replacement(t.e, RestOf(src, t.chars),
                                        effective_dst_len - Len(t.bytes),
                                        last, source)}})

\* The length of dst the variant encoder may write to; the subtraction
\* has no value in usize when dst is shorter than NCR_EXTRA.
EffectiveDstLen(e, dst) ==
  dst - (IF can_encode_everything(encoder_encoding(e)) THEN 0 ELSE NCR_EXTRA)

\* The start of encode_from_utf16 and encode_from_utf8 and their loop.  When
\* dst.len() - NCR_EXTRA is below zero, a build that checks arithmetic (the
\* default with debug assertions) panics at the subtraction; a build that
\* does not gets a value of at least usize::MAX - 8, more than the length
\* of any slice, and panics at the first dst[total_written..
\* effective_dst_len].
encode_replacing(e, src, dst, last, source, check, debug) ==
  IF EffectiveDstLen(e, dst) < 0
  THEN EncodeReturn("Panic", IF debug THEN "underflow" ELSE "slice", src,
                    source, EncodeStart(e, dst))
  ELSE encode_loop(EncodeStart(e, dst), src, dst, EffectiveDstLen(e, dst),
                   last, source, check, debug)

\* Encoder::encode_from_utf16
encode_from_utf16(e, src, dst, last, debug) ==
  encode_replacing(e, src, dst, last, "utf16", FALSE, debug)

\* encode_from_utf8 without the look at total_written after a reference.
encode_from_utf8_Unchecked(e, src, dst, last, debug) ==
  encode_replacing(e, src, dst, last, "utf8", FALSE, debug)

\* Encoder::encode_from_utf8
encode_from_utf8(e, src, dst, last, debug) ==
  encode_replacing(e, src, dst, last, "utf8", TRUE, debug)

\* ------------------------------------------------------- Vec<u8> and String
\* The methods that take a Vec<u8> or a String write into its spare capacity.

\* A Vec<u8>, or the Vec<u8> of a String: its bytes and its capacity.
Vec(bytes, capacity) == [bytes |-> bytes, capacity |-> capacity]

\* The UTF-8 bytes of a text given as code points.
RECURSIVE Utf8Of(_)
Utf8Of(text) ==
  IF text = <<>> THEN <<>> ELSE Utf8Bytes(Head(text)) \o Utf8Of(Tail(text))

InPlace_FromStart(vec, bytes, written) ==
  [vec EXCEPT !.bytes = SubSeq(bytes \o Blank(vec.capacity - Len(bytes)), 1,
                               written)]

\* What the Vec is after old_len = len(), set_len(capacity), a call that
\* wrote `bytes` to the slice [old_len..] and returned `written`, and
\* set_len(old_len + written).
InPlace(vec, bytes, written) ==
  [vec EXCEPT !.bytes = SubSeq(vec.bytes \o bytes \o
                               Blank(vec.capacity - Len(vec.bytes) - Len(bytes)),
                               1, Len(vec.bytes) + written)]

\* Decoder::decode_to_string on the String dst.
DecodeToString(d, src, dst, last) ==
  The({[res |-> r.res, read |-> r.read, written |-> r.written,
        bytes |-> Utf8Of(r.text), replaced |-> r.had_errors,
        dst |-> InPlace(dst, Utf8Of(r.text), r.written)]
       : r \in {decode_to_string(d, src, Len(dst.bytes), dst.capacity, last)}})

\* Decoder::decode_to_string_without_replacement on the String dst.
DecodeToStringWithoutReplacement(d, src, dst, last) ==
  The({[res |-> r.res, read |-> r.read, written |-> r.written,
        bytes |-> Utf8Of(r.text), replaced |-> FALSE,
        dst |-> InPlace(dst, Utf8Of(r.text), r.written)]
       : r \in {decode_to_string_without_replacement(d, src, Len(dst.bytes),
                                                     dst.capacity, last)}})

\* The loop at the end of decode_to_str and of
\* decode_to_str_without_replacement that leaves the bytes alone.
ZeroTrail_None(bytes, trail) == bytes

\* The loop at the end of decode_to_str and of
\* decode_to_str_without_replacement: from bytes[trail] on (trail counts
\* from 0), bytes with (byte & 0xC0) == 0x80 are set to 0 up to the first
\* byte that is not one or to the end.
RECURSIVE ZeroTrail(_, _)
ZeroTrail(bytes, trail) ==
  IF trail < Len(bytes) /\ (bytes[trail + 1] \div 64) = 2
  THEN ZeroTrail([bytes EXCEPT ![trail + 1] = 0], trail + 1)
  ELSE bytes

\* The bytes of the str dst after a decode_to_utf8* call wrote `written`
\* bytes, those of text, from its start.
StrAfter(dst, text, written) ==
  ZeroTrail(Utf8Of(text) \o SubSeq(dst, written + 1, Len(dst)), written)

\* Decoder::decode_to_str on the str whose bytes are dst.
decode_to_str(d, src, dst, last) ==
  The({[res |-> r.res, read |-> r.read, written |-> r.written,
        replaced |-> r.had_errors, d |-> r.d,
        dst |-> IF r.res = "Panic" THEN dst ELSE StrAfter(dst, r.text, r.written)]
       : r \in {decode_with_replacement(d, src, Len(dst), last, "utf8")}})

\* Decoder::decode_to_str_without_replacement on the str whose bytes are dst.
decode_to_str_without_replacement(d, src, dst, last) ==
  The({[res |-> r.res, read |-> r.read, written |-> r.written,
        replaced |-> FALSE, d |-> r.d,
        dst |-> IF r.res = "Panic" THEN dst ELSE StrAfter(dst, r.text, r.written)]
       : r \in {decode_without_replacement(d, src, Len(dst), last, "utf8")}})

\* Encoder::encode_from_utf8_to_vec_without_replacement
encode_from_utf8_to_vec_without_replacement(e, src, dst, last) ==
  The({[res |-> r.res, read |-> r.read, chars |-> r.chars,
        written |-> r.written, bytes |-> r.bytes, replaced |-> FALSE,
        unmappable |-> r.unmappable, encoder |-> r.encoder,
        dst |-> InPlace(dst, r.bytes, r.written)]
       : r \in {encode_without_replacement(e, src,
                                           dst.capacity - Len(dst.bytes),
                                           last, "utf8")}})

\* Encoder::encode_from_utf8_to_vec
encode_from_utf8_to_vec(e, src, dst, last, debug) ==
  The({[res |-> r.res, read |-> r.read, chars |-> r.chars,
        written |-> r.written, bytes |-> r.bytes,
        replaced |-> r.had_unmappables, unmappable |-> 0,
        encoder |-> r.encoder, dst |-> InPlace(dst, r.bytes, r.written)]
       : r \in {encode_from_utf8(e, src, dst.capacity - Len(dst.bytes), last,
                                 debug)}})

\* ---------------------------------------------- Encoding (one-shot encoding)

\* usize::next_power_of_two: the least power of two that is at least n.
RECURSIVE NextPowerOfTwoFrom(_, _)
NextPowerOfTwoFrom(p, n) == IF p >= n THEN p ELSE NextPowerOfTwoFrom(2 * p, n)

next_power_of_two(n) == NextPowerOfTwoFrom(1, n)

\* Vec::reserve_exact: room for `additional` bytes after the length.
reserve_exact(vec, additional) ==
  [vec EXCEPT !.capacity = Max(vec.capacity, Len(vec.bytes) + additional)]

\* What Encoding::encode returns: the Cow and what it holds, the encoding,
\* had_errors; and what the loop did: the characters read in all, and for
\* each OutputFull the capacity before and after the reservation, the bytes
\* the Vec held, the characters read so far and the length the oracle asked
\* for.
EncodeResult(cow, bytes, encoding_used, had_errors, chars, regrown, panic) ==
  [cow |-> cow, bytes |-> bytes, encoding |-> encoding_used,
   had_errors |-> had_errors, chars |-> chars, regrown |-> regrown,
   panic |-> panic]

encode_regrown_Same(e, string, vec, total_read) == vec

\* The Vec after the OutputFull arm of the loop of Encoding::encode, with
\* total_read characters of string read.
encode_regrown(e, string, vec, total_read) ==
  reserve_exact(
    vec,
    next_power_of_two(
      vec.capacity
      + max_buffer_length_from_utf8_if_no_unmappables(
          e, Units("utf8", RestOf(string, total_read))))
    - Len(vec.bytes))

\* The loop of Encoding::encode from total_read characters on.  The number
\* of turns is bounded by the length of the string: a turn that reads
\* nothing and writes nothing with more room than the last is not taken
\* twice.
RECURSIVE encode_loop_to_vec(_, _, _, _, _, _, _, _)
encode_loop_to_vec(enc, e, string, vec, total_read, had, regrown, debug) ==
  The({
    IF r.res = "Panic"
    THEN EncodeResult("Owned", r.dst.bytes, enc, had \/ r.replaced,
                      total_read + r.chars, regrown, TRUE)
    ELSE IF r.res = "InputEmpty"
    THEN EncodeResult("Owned", r.dst.bytes, enc, had \/ r.replaced,
                      total_read + r.chars, regrown,
                      debug /\ total_read + r.chars # Len(string))
    ELSE IF Len(regrown) > 2 * Len(string) + 2
    THEN EncodeResult("Looping", r.dst.bytes, enc,
                      had \/ r.replaced, total_read + r.chars,
                      regrown, FALSE)
    ELSE The({
      encode_loop_to_vec(enc, r.encoder, string, grown, total_read + r.chars,
                         had \/ r.replaced,
                         Append(regrown,
                                [from |-> r.dst.capacity, to |-> grown.capacity,
                                 bytes |-> r.dst.bytes, kept |-> grown.bytes,
                                 chars |-> total_read + r.chars,
                                 needed |-> max_buffer_length_from_utf8_if_no_unmappables(
                                              r.encoder,
                                              Units("utf8",
                                                    RestOf(string,
                                                           total_read + r.chars)))]),
                         debug)
      : grown \in {encode_regrown(r.encoder, string, r.dst,
                                  total_read + r.chars)}})
    : r \in {encode_from_utf8_to_vec(e, RestOf(string, total_read), vec, TRUE,
                                     debug)}})

encode_NeverBorrowing(enc, string, debug) ==
  encode_loop_to_vec(
    output_encoding(enc), new_encoder(output_encoding(enc)), string,
    Vec(<<>>, next_power_of_two(
                max_buffer_length_from_utf8_if_no_unmappables(
                  new_encoder(output_encoding(enc)),
                  Len(Utf8Of(string))))),
    0, FALSE, <<>>, debug)

\* Encoding::encode.  The string is a sequence of characters; as_bytes() is
\* its UTF-8 form, and an ASCII prefix has as many bytes as characters.
encode(enc, string, debug) ==
  IF output_encoding(enc) = "UTF_8"
  THEN EncodeResult("Borrowed", Utf8Of(string), output_encoding(enc), FALSE,
                    0, <<>>, FALSE)
  ELSE IF is_ascii_compatible(enc)
  THEN The({
    IF valid_up_to = Len(Utf8Of(string))
    THEN EncodeResult("Borrowed", Utf8Of(string), output_encoding(enc), FALSE,
                      0, <<>>, FALSE)
    ELSE encode_loop_to_vec(
           output_encoding(enc), new_encoder(output_encoding(enc)), string,
           Vec(SubSeq(Utf8Of(string), 1, valid_up_to),
               next_power_of_two(
                 valid_up_to
                 + max_buffer_length_from_utf8_if_no_unmappables(
                     new_encoder(output_encoding(enc)),
                     Len(Utf8Of(string)) - valid_up_to))),
           valid_up_to, FALSE, <<>>, debug)
    : valid_up_to \in {ascii_valid_up_to(Utf8Of(string))}})
  ELSE encode_loop_to_vec(
         output_encoding(enc), new_encoder(output_encoding(enc)), string,
         Vec(<<>>, next_power_of_two(
                     max_buffer_length_from_utf8_if_no_unmappables(
                       new_encoder(output_encoding(enc)),
                       Len(Utf8Of(string))))),
         0, FALSE, <<>>, debug)

\* ------------------------------------------------------------ state machine
\* One Decoder and the caller that drives it over one byte stream.

VARIABLES
  initial_encoding,  \* the encoding the Decoder was created from
  sniffing,          \* the BomHandling it was created with
  encoding,          \* Decoder.encoding
  variant,           \* Decoder.variant
  life_cycle,        \* Decoder.life_cycle
  stream,            \* the bytes the caller has passed to the Decoder so far
  pos,               \* how many of them the decode calls have reported as read
  eof,               \* the caller has passed last = true
  out,               \* the text the caller has collected, as code points
  call,              \* the latest decode call: whether the operation replaces,
                     \* what it returned, how many Malformed results it
                     \* handled and how many U+FFFD it wrote
  arg,               \* the argument of a method of Encoding that is called
                     \* without a Decoder of the caller's, "none" otherwise
  ret,               \* what that method returned, "none" before the call
  receiver,          \* the encoding new_encoder() was called on
  encoder,           \* the Encoder it returned
  string,            \* the characters the caller has passed to the Encoder
  consumed,          \* how many of them the encode calls have read
  closing,           \* the caller has passed last = true to the Encoder
  encoded,           \* the bytes the caller has collected from the Encoder
  encode_call        \* the latest encode call and what it returned

vars == <<initial_encoding, sniffing, encoding, variant, life_cycle, stream, pos,
          eof, out, call, arg, ret, receiver, encoder, string, consumed,
          closing, encoded, encode_call>>

encoder_vars == <<receiver, encoder, string, consumed, closing, encoded,
                  encode_call>>

\* The Encoder of the caller before its first call.
EncoderFresh ==
  /\ encoder = new_encoder(receiver)
  /\ string = <<>>
  /\ consumed = 0
  /\ closing = FALSE
  /\ encoded = <<>>
  /\ encode_call = [op |-> "none", res |-> "none"]

\* No Encoder is used where the caller decodes or looks an encoding up.
EncoderUnused == receiver = "UTF_8" /\ EncoderFresh

\* The least destination the documentation of Decoder allows.
MIN_UTF8_DST == 4

MIN_UTF16_DST == 2

MinDst(target) == IF target = "utf8" THEN MIN_UTF8_DST ELSE MIN_UTF16_DST

\* A destination no stream of the model fills.
BigDst == 3 * MaxLen + 8

Ops == {"decode_to_utf16_without_replacement", "decode_to_utf8_without_replacement",
        "decode_to_utf16", "decode_to_utf8"}

TargetOf(op) ==
  IF op \in {"decode_to_utf16_without_replacement", "decode_to_utf16"}
  THEN "utf16" ELSE "utf8"

Replacing(op) == op \in {"decode_to_utf16", "decode_to_utf8"}

\* The sizing oracle that goes with an operation.
OracleFor(op, d, byte_length) ==
  CASE TargetOf(op) = "utf16" -> max_utf16_buffer_length(d, byte_length)
    [] op = "decode_to_utf8" -> max_utf8_buffer_length(d, byte_length)
    [] op = "decode_to_utf8_without_replacement" ->
         max_utf8_buffer_length_without_replacement(d, byte_length)

\* The byte sequences of length at most n.
Streams == UNION {[1..k -> Bytes] : k \in 0..MaxLen}

Chunks(n) == {bytes \in Streams : Len(bytes) <= n}

Decoder == [encoding |-> encoding, variant |-> variant, life_cycle |-> life_cycle]

Init ==
  /\ initial_encoding \in Encodings
  /\ sniffing \in BomHandling
  /\ encoding = NewDecoderFor(initial_encoding, sniffing).encoding
  /\ variant = NewDecoderFor(initial_encoding, sniffing).variant
  /\ life_cycle = NewDecoderFor(initial_encoding, sniffing).life_cycle
  /\ stream = <<>>
  /\ pos = 0
  /\ eof = FALSE
  /\ out = <<>>
  /\ call = [replacing |-> FALSE, res |-> "none", seq |-> 0, extra |-> 0,
             had_errors |-> FALSE, mal |-> 0, appended |-> 0]
  /\ arg = "none"
  /\ ret = "none"
  /\ EncoderUnused

\* What one call of op returns, in one shape for the four operations.
Invoke(op, d, src, dst, last) ==
  IF Replacing(op)
  THEN The({[res |-> r.res, seq |-> 0, extra |-> 0, read |-> r.read,
             written |-> r.written, text |-> r.text, had_errors |-> r.had_errors,
             mal |-> r.mal, d |-> r.d]
            : r \in {decode_with_replacement(d, src, dst, last, TargetOf(op))}})
  ELSE The({[res |-> r.res, seq |-> r.seq, extra |-> r.extra, read |-> r.read,
             written |-> r.written, text |-> r.text, had_errors |-> FALSE,
             mal |-> IF r.res = "Malformed" THEN 1 ELSE 0, d |-> r.d]
            : r \in {decode_without_replacement(d, src, dst, last, TargetOf(op))}})

\* The calls the caller can make next, as [op, bytes, last, dst]: it passes
\* what was not reported as read followed by `bytes` more of the stream, with
\* a destination of dst code units: the documented minimum, what the sizing
\* oracle returns for the src of the call, or a large one.  Once it has
\* passed last = true it has no more bytes and keeps passing last = true.  A
\* panic ends the process.
SrcOf(c) == Tail2(stream, pos) \o c.bytes

DstLens(op, src_len) ==
  {MinDst(TargetOf(op)),
   Max(MinDst(TargetOf(op)), OracleFor(op, Decoder, src_len)),
   BigDst}

CallsOf(op) ==
  IF call.res = "Panic" THEN {}
  ELSE UNION {
         {[op |-> op, bytes |-> bytes, last |-> last, dst |-> dst] :
            dst \in DstLens(op, Len(stream) - pos + Len(bytes))} :
         bytes \in (IF eof THEN {<<>>} ELSE Chunks(MaxLen - Len(stream))),
         last \in (IF eof THEN {TRUE} ELSE BOOLEAN)}

Returned(c) == Invoke(c.op, Decoder, SrcOf(c), c.dst, c.last)

\* The caller makes call c.  On Malformed from an operation without
\* replacement it appends the U+FFFD itself.
Drive(c) ==
  \E r \in {Returned(c)} :
     /\ stream' = stream \o c.bytes
     /\ eof' = c.last
     /\ call' = [replacing |-> Replacing(c.op), res |-> r.res, seq |-> r.seq,
                 extra |-> r.extra, had_errors |-> r.had_errors, mal |-> r.mal,
                 appended |-> Count(r.text, REPLACEMENT_CHARACTER)]
     /\ encoding' = r.d.encoding
     /\ variant' = r.d.variant
     /\ life_cycle' = r.d.life_cycle
     /\ pos' = pos + r.read
     /\ out' = out \o r.text \o
               (IF r.res = "Malformed" THEN <<REPLACEMENT_CHARACTER>> ELSE <<>>)
     /\ UNCHANGED <<initial_encoding, sniffing, arg, ret, encoder_vars>>

decode_to_utf16_without_replacement ==
  \E c \in CallsOf("decode_to_utf16_without_replacement") : Drive(c)

decode_to_utf8_without_replacement ==
  \E c \in CallsOf("decode_to_utf8_without_replacement") : Drive(c)

decode_to_utf16 == \E c \in CallsOf("decode_to_utf16") : Drive(c)

decode_to_utf8 == \E c \in CallsOf("decode_to_utf8") : Drive(c)

Next ==
  \/ decode_to_utf16_without_replacement
  \/ decode_to_utf8_without_replacement
  \/ decode_to_utf16
  \/ decode_to_utf8

Spec == Init /\ [][Next]_vars

\* --------------------------------------------------------------- references

\* The caller has seen the stream end: a call with last = true returned
\* InputEmpty.
Ended == eof /\ call.res = "InputEmpty"

\* The text of `bytes` in encoding enc: each byte in turn through the
\* encoding's byte-level rules, one U+FFFD for each malformed sequence and
\* for an incomplete sequence at the end.
RECURSIVE RefDecodeFrom(_, _, _, _)
RefDecodeFrom(v, bytes, i, text) ==
  IF i > Len(bytes)
  THEN (IF v.pend # <<>> THEN Append(text, REPLACEMENT_CHARACTER) ELSE text)
  ELSE LET r == VariantByte(v, bytes[i])
           w == [v EXCEPT !.pend = r.pend]
       IN CASE r.kind = "out" -> RefDecodeFrom(w, bytes, i + 1, Append(text, r.cp))
            [] r.kind = "more" -> RefDecodeFrom(w, bytes, i + 1, text)
            [] r.kind = "bad" ->
                 RefDecodeFrom(w, bytes, i + 1, Append(text, REPLACEMENT_CHARACTER))
            [] r.kind = "unread" ->
                 RefDecodeFrom(w, bytes, i, Append(text, REPLACEMENT_CHARACTER))

RefDecode(enc, bytes) == RefDecodeFrom(new_variant_decoder(enc), bytes, 1, <<>>)

\* The text one decode_to_utf16 call with last = true gives for `bytes` on a
\* new Decoder d, with a destination large enough.
OneCall(d, bytes) == decode_with_replacement(d, bytes, BigDst, TRUE, "utf16")

\* ------------------------------------------------------------------- claims

\* C1: a Sniff-mode Decoder whose stream begins with a BOM consumes the BOM
\* bytes without output, for every chunking; once the BOM is consumed
\* encoding() is the BOM's encoding, and when the stream has ended the text
\* is that of the bytes after the BOM in the BOM's encoding.
C1_BomSniffed ==
  LET bom == for_bom(stream)
  IN (sniffing = "Sniff" /\ bom[1] # "None" /\ call.res # "Panic") =>
       /\ pos <= bom[2] => out = <<>>
       /\ pos >= bom[2] => encoding = bom[1]
       /\ Ended => out = RefDecode(bom[1], Tail2(stream, bom[2]))

\* A windows-1252 Sniff-mode Decoder has consumed FF FE and one more byte
\* and the stream has ended: it is a UTF-16LE decoder.
C1_Witness ==
  /\ sniffing = "Sniff"
  /\ initial_encoding = "WINDOWS_1252"
  /\ stream = <<255, 254, 97>>
  /\ Ended
  /\ encoding = "UTF_16LE"
  /\ out = <<REPLACEMENT_CHARACTER>>

\* The BOMs a Decoder looks for: all three when sniffing, its own encoding's
\* when removing, none otherwise.
BomOf(enc) ==
  CASE enc = "UTF_8" -> <<239, 187, 191>>
    [] enc = "UTF_16LE" -> <<255, 254>>
    [] enc = "UTF_16BE" -> <<254, 255>>

Sought(enc, mode) ==
  CASE mode = "Sniff" -> {BomOf(e) : e \in {"UTF_8", "UTF_16LE", "UTF_16BE"}}
    [] mode = "Remove" ->
         IF enc \in {"UTF_8", "UTF_16LE", "UTF_16BE"} THEN {BomOf(enc)} ELSE {}
    [] mode = "Off" -> {}

\* The stream begins like a BOM the Decoder looks for and is none.
FailedPartialBom ==
  /\ stream # <<>>
  /\ \E bom \in Sought(initial_encoding, sniffing) : stream[1] = bom[1]
  /\ \A bom \in Sought(initial_encoding, sniffing) : ~StartsWith(stream, bom)

\* C2: when a partial BOM match fails, the bytes withheld as BOM candidates
\* are decoded after all: at the end of the stream the text is what a
\* Decoder without BOM handling for the original encoding gives for the same
\* bytes, and encoding() is still the original encoding.
C2_FailedPartialBomReplayed ==
  (sniffing = "Sniff" /\ FailedPartialBom /\ Ended) =>
     /\ out = OneCall(new_decoder_without_bom_handling(initial_encoding), stream).text
     /\ encoding = initial_encoding

\* An ISO-2022-JP Sniff-mode Decoder was given EF BB and then a byte that is
\* not BF: the two bytes it withheld have become two U+FFFD.
C2_Witness ==
  /\ sniffing = "Sniff"
  /\ initial_encoding = "ISO_2022_JP"
  /\ stream = <<239, 187, 97>>
  /\ Ended
  /\ out = <<REPLACEMENT_CHARACTER, REPLACEMENT_CHARACTER, 97>>

\* C3: however the stream is cut into calls, however small the destinations
\* and whichever operations are used, at the end of the stream the text and
\* the number of errors are those of one call on the whole stream.
C3_ChunkingInvariant ==
  Ended =>
    LET one == OneCall(NewDecoderFor(initial_encoding, sniffing), stream)
    IN /\ out = one.text
       /\ Count(out, REPLACEMENT_CHARACTER) = one.mal

\* A UTF-8 stream of three malformed bytes has ended, and the last call
\* wrote only one of the three U+FFFD: the stream took several calls.
C3_Witness ==
  /\ initial_encoding = "UTF_8"
  /\ stream = <<255, 255, 255>>
  /\ Ended
  /\ call.replacing
  /\ call.appended = 1
  /\ out = <<REPLACEMENT_CHARACTER, REPLACEMENT_CHARACTER, REPLACEMENT_CHARACTER>>

\* C4: when a call returns InputEmpty, every byte of its src has been read:
\* the bytes read in total are all the bytes passed so far.
C4_InputEmptyReadsAll == call.res = "InputEmpty" => pos = Len(stream)

\* A UTF-8 Decoder has returned InputEmpty in mid-stream with an incomplete
\* sequence at the end of src: its two bytes count as read.
C4_Witness ==
  /\ call.res = "InputEmpty"
  /\ ~eof
  /\ encoding = "UTF_8"
  /\ stream = <<97, 239, 187>>
  /\ variant.pend = <<239, 187>>
  /\ pos = 3

\* C5: in every reachable state of a Decoder, a decode call whose destination
\* is at least as long as the sizing oracle's value for the length of its
\* src does not return OutputFull.
C5_SizedNeverOutputFull ==
  \A op \in Ops : \A c \in CallsOf(op) :
     c.dst >= OracleFor(op, Decoder, Len(SrcOf(c))) =>
        Returned(c).res # "OutputFull"

\* C6: decode_to_utf8 and decode_to_utf16 never return Malformed; a call that
\* returns has written exactly one U+FFFD for each Malformed of the operation
\* without replacement, and had_replacements is true iff it has written one;
\* no malformed sequence is dropped and decoding goes on after each: at the
\* end of a stream decoded without BOM handling the text is the encoding's
\* text of the stream, one U+FFFD for each malformed sequence.
C6_ReplacementHandlesMalformed ==
  /\ call.replacing => call.res # "Malformed"
  /\ (call.replacing /\ call.res # "Panic") =>
        /\ call.appended = call.mal
        /\ call.had_errors <=> call.appended > 0
  /\ (Ended /\ sniffing = "Off") => out = RefDecode(initial_encoding, stream)

\* One decode_to_utf* call on a UTF-8 Decoder without BOM handling has
\* replaced two malformed bytes and ended the stream.
C6_Witness ==
  /\ sniffing = "Off"
  /\ initial_encoding = "UTF_8"
  /\ stream = <<97, 255, 254>>
  /\ Ended
  /\ call.replacing
  /\ call.had_errors
  /\ call.appended = 2
  /\ out = <<97, REPLACEMENT_CHARACTER, REPLACEMENT_CHARACTER>>

\* The malformed sequences of `bytes` in the encoding of v, in order, each as
\* [last |-> the index in bytes of its last byte, len |-> its length]; an
\* incomplete sequence at the end counts when flush.
RECURSIVE RefErrorsFrom(_, _, _, _, _)
RefErrorsFrom(v, bytes, i, flush, errs) ==
  IF i > Len(bytes)
  THEN (IF flush /\ v.pend # <<>>
        THEN Append(errs, [last |-> Len(bytes), len |-> Len(v.pend)])
        ELSE errs)
  ELSE LET r == VariantByte(v, bytes[i])
           w == [v EXCEPT !.pend = r.pend]
       IN CASE r.kind \in {"out", "more"} -> RefErrorsFrom(w, bytes, i + 1, flush, errs)
            [] r.kind = "bad" ->
                 RefErrorsFrom(w, bytes, i + 1, flush,
                               Append(errs, [last |-> i, len |-> r.seq]))
            [] r.kind = "unread" ->
                 RefErrorsFrom(w, bytes, i, flush,
                               Append(errs, [last |-> i - 1, len |-> r.seq]))

\* The BOM the Decoder has to take off the stream, <<>> if none.
RemovedBom ==
  IF \E bom \in Sought(initial_encoding, sniffing) : StartsWith(stream, bom)
  THEN BomOf(for_bom(stream)[1])
  ELSE <<>>

\* The encoding the stream is decoded in: the BOM's when sniffing finds one.
StreamEncoding ==
  IF RemovedBom # <<>> THEN for_bom(stream)[1] ELSE initial_encoding

\* C7: every Malformed(seq_len, extra_consumed) has 1 <= seq_len <= 3,
\* 0 <= extra_consumed <= 3 and seq_len + extra_consumed <= 6, and names the
\* malformed sequence: the seq_len bytes that end extra_consumed bytes before
\* the last byte consumed so far are the stream's malformed sequence whose
\* turn it is (the k-th for the k-th error of the stream).
C7_MalformedSound ==
  call.res = "Malformed" =>
    LET errs == RefErrorsFrom(new_variant_decoder(StreamEncoding),
                              Tail2(stream, Len(RemovedBom)), 1, eof, <<>>)
        k == Count(out, REPLACEMENT_CHARACTER)
    IN /\ call.seq \in 1..3
       /\ call.extra \in 0..3
       /\ call.seq + call.extra <= 6
       /\ k <= Len(errs)
       /\ errs[k] = [last |-> pos - call.extra - Len(RemovedBom), len |-> call.seq]

C9_FinishedIsTerminal ==
  life_cycle = "Finished" =>
    \A op \in Ops : \A src \in Chunks(1) : \A last \in BOOLEAN :
       \A dst \in {MinDst(TargetOf(op)), BigDst} :
          LET r == Invoke(op, Decoder, src, dst, last)
          IN /\ r.res = "Panic"
             /\ r.text = <<>>
             /\ r.d.life_cycle = "Finished"

\* A decode call on a Finished Decoder has panicked; the Decoder is still
\* Finished and the text is what it was.
C9_Witness ==
  /\ life_cycle = "Finished"
  /\ call.res = "Panic"
  /\ stream = <<97, 97>>
  /\ out = <<97, 97>>

\* C10: a Decoder with BOM removal takes a BOM off the stream only if it is
\* the BOM of the Decoder's own encoding (UTF-8, UTF-16LE or UTF-16BE),
\* however the BOM is cut into calls, and writes nothing for it; any other
\* beginning, the BOM of another encoding and a failed partial match
\* included, is decoded as input; encoding() is the encoding the Decoder was
\* created from throughout.
C10_RemoveOnlyOwnBom ==
  sniffing = "Remove" =>
    LET own == IF initial_encoding \in {"UTF_8", "UTF_16LE", "UTF_16BE"}
                  /\ StartsWith(stream, BomOf(initial_encoding))
               THEN BomOf(initial_encoding) ELSE <<>>
    IN /\ encoding_of(Decoder) = initial_encoding
       /\ (own # <<>> /\ pos <= Len(own) /\ call.res # "Panic") => out = <<>>
       /\ Ended => out = RefDecode(initial_encoding, Tail2(stream, Len(own)))

\* A UTF-8 Decoder with BOM removal was given the UTF-16LE BOM and a letter:
\* the two BOM bytes were decoded as (malformed) UTF-8.
C10_Witness ==
  /\ sniffing = "Remove"
  /\ initial_encoding = "UTF_8"
  /\ stream = <<255, 254, 97>>
  /\ Ended
  /\ encoding = "UTF_8"
  /\ out = <<REPLACEMENT_CHARACTER, REPLACEMENT_CHARACTER, 97>>

\* C11: a Decoder without BOM handling treats no byte specially: it is never
\* in a state that looks for a BOM or withholds bytes, encoding() is the
\* encoding it was created from throughout, and at the end of the stream the
\* text is the encoding's text of every byte of the stream, BOM bytes
\* included (the UTF-8 BOM gives U+FEFF).
C11_OffTreatsNoByteSpecially ==
  sniffing = "Off" =>
    /\ life_cycle \in {"Converting", "Finished"}
    /\ encoding_of(Decoder) = initial_encoding
    /\ Ended => out = RefDecode(initial_encoding, stream)
    /\ (Ended /\ initial_encoding = "UTF_8" /\ stream = <<239, 187, 191>>) =>
          out = <<65279>>

\* A UTF-8 Decoder without BOM handling was given the UTF-8 BOM and the
\* stream has ended: the text is U+FEFF.
C11_Witness ==
  /\ sniffing = "Off"
  /\ initial_encoding = "UTF_8"
  /\ stream = <<239, 187, 191>>
  /\ Ended
  /\ encoding = "UTF_8"
  /\ out = <<65279>>

\* ------------------------------------------------------ one byte at a time

\* The calls of a caller that feeds the stream one byte at a time into a
\* destination of the documented minimum length: each call passes one new
\* byte, or, after OutputFull, the byte that was not read, with a fresh
\* destination; an empty src is passed only with last = true, and the caller
\* stops once the call with last = true has returned InputEmpty.
OneByteCallsOf(op) ==
  {c \in CallsOf(op) :
     /\ ~Ended
     /\ c.dst = MinDst(TargetOf(op))
     /\ Len(SrcOf(c)) <= 1
     /\ Len(SrcOf(c)) = 0 => c.last}

feed_utf16_without_replacement ==
  \E c \in OneByteCallsOf("decode_to_utf16_without_replacement") : Drive(c)

feed_utf8_without_replacement ==
  \E c \in OneByteCallsOf("decode_to_utf8_without_replacement") : Drive(c)

feed_utf16 == \E c \in OneByteCallsOf("decode_to_utf16") : Drive(c)

feed_utf8 == \E c \in OneByteCallsOf("decode_to_utf8") : Drive(c)

FeedNext ==
  \/ feed_utf16_without_replacement
  \/ feed_utf8_without_replacement
  \/ feed_utf16
  \/ feed_utf8

FeedSpec == Init /\ [][FeedNext]_vars

IsScalarValue(c) == c \in 0..55295 \/ c \in 57344..1114111

DecoderUnused ==
  /\ initial_encoding = "UTF_8"
  /\ sniffing = "Off"
  /\ encoding = "UTF_8"
  /\ variant = new_variant_decoder("UTF_8")
  /\ life_cycle = "Converting"
  /\ stream = <<>>
  /\ pos = 0
  /\ eof = FALSE
  /\ out = <<>>
  /\ call = [replacing |-> FALSE, res |-> "none", seq |-> 0, extra |-> 0,
             had_errors |-> FALSE, mal |-> 0, appended |-> 0]

decoder_vars == <<initial_encoding, sniffing, encoding, variant, life_cycle,
                  stream, pos, eof, out, call>>

OneShotInit ==
  /\ DecoderUnused
  /\ EncoderUnused
  /\ arg \in [self : Encodings, bytes : Streams]
  /\ ret = [op |-> "none"]

call_decode ==
  /\ ret' = [op |-> "decode", val |-> decode(arg.self, arg.bytes)]
  /\ UNCHANGED <<arg, decoder_vars, encoder_vars>>

call_decode_with_bom_removal ==
  /\ ret' = [op |-> "decode_with_bom_removal",
             val |-> decode_with_bom_removal(arg.self, arg.bytes)]
  /\ UNCHANGED <<arg, decoder_vars, encoder_vars>>

call_decode_without_bom_handling ==
  /\ ret' = [op |-> "decode_without_bom_handling",
             val |-> decode_without_bom_handling(arg.self, arg.bytes)]
  /\ UNCHANGED <<arg, decoder_vars, encoder_vars>>

call_decode_without_bom_handling_and_without_replacement ==
  /\ ret' = [op |-> "decode_without_bom_handling_and_without_replacement",
             val |-> decode_without_bom_handling_and_without_replacement(
                       arg.self, arg.bytes)]
  /\ UNCHANGED <<arg, decoder_vars, encoder_vars>>

call_for_bom ==
  /\ ret' = [op |-> "for_bom", val |-> for_bom(arg.bytes)]
  /\ UNCHANGED <<arg, decoder_vars, encoder_vars>>

OneShotNext ==
  \/ call_for_bom
  \/ call_decode
  \/ call_decode_with_bom_removal
  \/ call_decode_without_bom_handling
  \/ call_decode_without_bom_handling_and_without_replacement

OneShotSpec == OneShotInit /\ [][OneShotNext]_vars

\* What a new Decoder d gives for `bytes` passed as one final buffer.
Streamed(d, bytes) == OneCall(d, bytes)

\* The BOM at the start of `bytes`, <<>> if none.
BomAt(bytes) ==
  IF for_bom(bytes)[1] = "None" THEN <<>> ELSE SubSeq(bytes, 1, for_bom(bytes)[2])

\* C14: Encoding.decode(bytes) returns the encoding of the BOM the bytes
\* start with, or the receiver if there is none; the text is the decoding
\* with replacement of the bytes after the BOM in that encoding; had_errors
\* holds iff that decoding replaced something; and text, encoding and
\* had_errors are those of a new_decoder() Decoder of the receiver given the
\* bytes as one final buffer.
C14_DecodeAsSniffingDecoder ==
  ret.op = "decode" =>
    \A d \in {Streamed(new_decoder(arg.self), arg.bytes)} :
      \A enc \in {IF BomAt(arg.bytes) = <<>> THEN arg.self
                  ELSE for_bom(arg.bytes)[1]} :
        /\ ~ret.val.panic
        /\ ret.val.encoding = enc
        /\ ret.val.text = RefDecode(enc, Tail2(arg.bytes, Len(BomAt(arg.bytes))))
        /\ ret.val.had_errors <=>
             RefErrorsFrom(new_variant_decoder(enc),
                           Tail2(arg.bytes, Len(BomAt(arg.bytes))), 1, TRUE, <<>>)
               # <<>>
        /\ d.res = "InputEmpty"
        /\ ret.val.text = d.text
        /\ ret.val.encoding = encoding_of(d.d)
        /\ ret.val.had_errors = d.had_errors

\* windows-1252 decode() of the UTF-16BE BOM, a malformed UTF-16BE half and
\* nothing else returned UTF-16BE, U+FFFD and had_errors.
C14_Witness ==
  /\ ret.op = "decode"
  /\ arg = [self |-> "WINDOWS_1252", bytes |-> <<254, 255, 97>>]
  /\ ret.val.encoding = "UTF_16BE"
  /\ ret.val.text = <<REPLACEMENT_CHARACTER>>
  /\ ret.val.had_errors

\* The encoding and the bytes a one-shot method decodes after its BOM
\* handling, as <<encoding, bytes>>.
Resolved(op, self, bytes) ==
  CASE op = "decode" ->
         IF BomAt(bytes) = <<>> THEN <<self, bytes>>
         ELSE <<for_bom(bytes)[1], Tail2(bytes, Len(BomAt(bytes)))>>
    [] op = "decode_with_bom_removal" ->
         IF BomAt(bytes) # <<>> /\ for_bom(bytes)[1] = self
         THEN <<self, Tail2(bytes, Len(BomAt(bytes)))>>
         ELSE <<self, bytes>>
    [] OTHER -> <<self, bytes>>

\* The bytes are valid UTF-8 from the first to the last.
EntirelyValidUtf8(bytes) ==
  RefErrorsFrom(new_variant_decoder("UTF_8"), bytes, 1, TRUE, <<>>) = <<>>

EntirelyAscii(bytes) == \A i \in 1..Len(bytes) : bytes[i] \in 0..127

\* The ASCII-compatible encodings of the model other than UTF-8.
OtherAsciiCompatible == {"WINDOWS_1252"}

C16_BomRemovalAsRemovingDecoder ==
  ret.op = "decode_with_bom_removal" =>
    \A d \in {Streamed(new_decoder_with_bom_removal(arg.self), arg.bytes)} :
      /\ ~ret.val.panic
      /\ d.res = "InputEmpty"
      /\ ret.val.text = d.text
      /\ ret.val.had_errors = d.had_errors
      /\ ret.val.text =
           RefDecode(arg.self,
             IF BomAt(arg.bytes) # <<>> /\ for_bom(arg.bytes)[1] = arg.self
             THEN Tail2(arg.bytes, Len(BomAt(arg.bytes)))
             ELSE arg.bytes)

\* UTF-8 decode_with_bom_removal() of the UTF-16LE BOM and one ASCII byte
\* kept the BOM as content: two malformed bytes, then the character.
C16_Witness ==
  /\ ret.op = "decode_with_bom_removal"
  /\ arg = [self |-> "UTF_8", bytes |-> <<255, 254, 97>>]
  /\ ret.val.text = <<REPLACEMENT_CHARACTER, REPLACEMENT_CHARACTER, 97>>
  /\ ret.val.had_errors

\* C17: decode_without_bom_handling_and_without_replacement(bytes) returns
\* None iff the bytes hold at least one malformed sequence for the receiver;
\* otherwise it returns Some(text) with the text of
\* decode_without_bom_handling(bytes), which then holds no U+FFFD that stands
\* for a malformed sequence.
C17_NoneIffMalformed ==
  ret.op = "decode_without_bom_handling_and_without_replacement" =>
    /\ ~ret.val.panic
    /\ ret.val.some <=>
         RefErrorsFrom(new_variant_decoder(arg.self), arg.bytes, 1, TRUE, <<>>) = <<>>
    /\ ret.val.some =>
         /\ ret.val.text = decode_without_bom_handling(arg.self, arg.bytes).text
         /\ ~decode_without_bom_handling(arg.self, arg.bytes).had_errors
         /\ ret.val.text = RefDecode(arg.self, arg.bytes)

\* windows-1252 without replacement gave Some for ASCII followed by
\* non-ASCII, through a Decoder.
C17_Witness ==
  /\ ret.op = "decode_without_bom_handling_and_without_replacement"
  /\ arg = [self |-> "WINDOWS_1252", bytes |-> <<97, 239, 97>>]
  /\ ret.val.some
  /\ ret.val.cow = "Owned"
  /\ ret.val.text = <<97, 239, 97>>

\* UTF-16LE without replacement gave None for a character and a lone byte.
C17_WitnessNone ==
  /\ ret.op = "decode_without_bom_handling_and_without_replacement"
  /\ arg = [self |-> "UTF_16LE", bytes |-> <<97, 187, 97>>]
  /\ ~ret.val.some

\* ------------------------------------------------------------ label lookup
\* The caller has a byte string and looks an encoding up by it.

LabelWhitespace == {9, 10, 12, 13, 32}

\* Runs of label whitespace of up to MaxPad bytes.
Pads == UNION {[1..k -> LabelWhitespace] : k \in 0..MaxPad}

Upper(t) == [i \in 1..Len(t) |-> IF t[i] \in 97..122 THEN t[i] - 32 ELSE t[i]]

Lower(t) == [i \in 1..Len(t) |-> IF t[i] \in 65..90 THEN t[i] + 32 ELSE t[i]]

Labels == {LABELS_SORTED[i] : i \in 1..Len(LABELS_SORTED)}

Names == {name(e) : e \in DOMAIN NAMES}

\* Tokens that are no label: "bogus", "utf-8_", "bogus" repeated to 18, 19,
\* 20 and 40 bytes, and bytes that are no ASCII letters: the ones next to
\* b'A' and b'Z', NUL, 0x80 and 0xFF.
Bogus == <<98, 111, 103, 117, 115>>

NonLabels ==
  {Bogus,
   <<117, 116, 102, 45, 56, 95>>,
   SubSeq(Bogus \o Bogus \o Bogus \o Bogus, 1, 18),
   SubSeq(Bogus \o Bogus \o Bogus \o Bogus, 1, 19),
   Bogus \o Bogus \o Bogus \o Bogus,
   Bogus \o Bogus \o Bogus \o Bogus \o Bogus \o Bogus \o Bogus \o Bogus,
   <<255, 64, 91, 0, 128>>}

Tokens == Labels \cup Names \cup NonLabels

\* A token with label whitespace between its two halves.
Spaced ==
  {SubSeq(t, 1, Len(t) \div 2) \o <<w>> \o Tail2(t, Len(t) \div 2) :
     t \in {l \in Labels : Len(l) >= 2}, w \in LabelWhitespace}

\* The whitespace put around a token, as <<before, after>>: runs of up to
\* MaxPad bytes each and MaxPad + 1 bytes together.
PadPairs == {p \in Pads \X Pads : Len(p[1]) + Len(p[2]) <= MaxPad + 1}

LookupInputs ==
  {p[1] \o c \o p[2] :
     p \in PadPairs,
     c \in UNION {{t, Upper(t), Lower(t)} : t \in Tokens}}
  \cup Spaced
  \cup {p[1] \o p[2] : p \in PadPairs}

LookupInit ==
  /\ DecoderUnused
  /\ EncoderUnused
  /\ arg \in LookupInputs
  /\ ret = [op |-> "none"]

call_for_label ==
  /\ ret' = [op |-> "for_label", val |-> for_label(arg)]
  /\ UNCHANGED <<arg, decoder_vars, encoder_vars>>

call_for_name ==
  /\ ret' = [op |-> "for_name", val |-> for_name(arg)]
  /\ UNCHANGED <<arg, decoder_vars, encoder_vars>>

call_for_label_no_replacement ==
  /\ ret' = [op |-> "for_label_no_replacement",
             val |-> for_label_no_replacement(arg)]
  /\ UNCHANGED <<arg, decoder_vars, encoder_vars>>

LookupNext ==
  \/ call_for_label
  \/ call_for_name
  \/ call_for_label_no_replacement

LookupSpec == LookupInit /\ [][LookupNext]_vars

\* C18: for every label of LABELS_SORTED, whatever its length up to the
\* longest, for_label(label) is Some of the encoding at the same index of
\* ENCODINGS_IN_LABEL_SORT.
C18_EveryLabelResolves ==
  ret.op = "for_label" =>
    \A i \in 1..Len(LABELS_SORTED) :
      arg = LABELS_SORTED[i] => ret.val = SomeEncoding(ENCODINGS_IN_LABEL_SORT[i])

\* The token of a label: the label without its leading and trailing label
\* whitespace.
Trimmed(label) ==
  IF \A i \in 1..Len(label) : label[i] \in LabelWhitespace THEN <<>>
  ELSE SubSeq(label,
         CHOOSE i \in 1..Len(label) :
           /\ label[i] \notin LabelWhitespace
           /\ \A j \in 1..(i - 1) : label[j] \in LabelWhitespace,
         CHOOSE i \in 1..Len(label) :
           /\ label[i] \notin LabelWhitespace
           /\ \A j \in (i + 1)..Len(label) : label[j] \in LabelWhitespace)

C20_NameRoundTrip ==
  ret.op = "for_name" =>
    /\ \A e \in DOMAIN NAMES : arg = name(e) => ret.val = SomeEncoding(e)
    /\ arg \notin Names => ret.val = NoEncoding

\* C21: for_label_no_replacement(l) is for_label(l), except that it is None
\* where for_label(l) is the replacement encoding; it is never the
\* replacement encoding.
C21_NoReplacementLookup ==
  ret.op = "for_label_no_replacement" =>
    /\ ret.val.encoding # "REPLACEMENT"
    /\ IF for_label(arg) = SomeEncoding("REPLACEMENT")
       THEN ret.val = NoEncoding
       ELSE ret.val = for_label(arg)

\* for_label_no_replacement("HZ-GB-2312") returned None for a label of the
\* replacement encoding.
C21_Witness ==
  /\ ret.op = "for_label_no_replacement"
  /\ arg = <<72, 90, 45, 71, 66, 45, 50, 51, 49, 50>>
  /\ for_label(arg) = SomeEncoding("REPLACEMENT")
  /\ ret.val = NoEncoding

\* buffer has at least Len(bom) bytes and its first bytes are those of bom.
BeginsWith(buffer, bom) ==
  /\ Len(buffer) >= Len(bom)
  /\ \A i \in 1..Len(bom) : buffer[i] = bom[i]

C22_WitnessPrefix ==
  /\ ret.op = "for_bom"
  /\ arg.bytes = <<239, 187>>
  /\ ret.val = <<"None", 0>>

\* ----------------------------------------------------------------- encoding
\* One Encoder and the caller that drives it over one string.

EncodeOps == {"encode_from_utf16_without_replacement",
              "encode_from_utf8_without_replacement",
              "encode_from_utf16", "encode_from_utf8"}

SourceOf(op) ==
  IF op \in {"encode_from_utf16_without_replacement", "encode_from_utf16"}
  THEN "utf16" ELSE "utf8"

EncodeReplacing(op) == op \in {"encode_from_utf16", "encode_from_utf8"}

\* The sizing oracle that goes with an operation.
EncodeOracleFor(op, e, length) ==
  CASE op = "encode_from_utf16_without_replacement" ->
         max_buffer_length_from_utf16_without_replacement(e, length)
    [] op = "encode_from_utf8_without_replacement" ->
         max_buffer_length_from_utf8_without_replacement(e, length)
    [] op = "encode_from_utf16" ->
         max_buffer_length_from_utf16_if_no_unmappables(e, length)
    [] op = "encode_from_utf8" ->
         max_buffer_length_from_utf8_if_no_unmappables(e, length)

\* The strings of at most MaxLen characters.
Strings == UNION {[1..k -> Chars] : k \in 0..MaxLen}

\* A destination no string of the model fills.
BigEncodeDst == 10 * MaxLen + 2 * NCR_EXTRA

EncoderInit ==
  /\ DecoderUnused
  /\ arg = "none"
  /\ ret = "none"
  /\ receiver \in Receivers
  /\ EncoderFresh

\* What one call of op returns in a build with or without debug assertions.
EncodeInvoke(op, e, src, dst, last, debug) ==
  CASE op = "encode_from_utf16" -> encode_from_utf16(e, src, dst, last, debug)
    [] op = "encode_from_utf8" -> encode_from_utf8(e, src, dst, last, debug)
    [] OTHER -> encode_without_replacement(e, src, dst, last, SourceOf(op))

\* The caller has seen the string end: a call with last = true returned
\* InputEmpty.
EncodeEnded == closing /\ encode_call.res = "InputEmpty"

\* The calls the caller can make next, as [op, chars, last, dst, debug]: it
\* passes what was not read followed by `chars` more of the string, with a
\* destination of dst bytes: room for one escape sequence, room for one byte
\* and the reserve, what the sizing oracle returns for the src of the call,
\* or a large one; to an operation
\* that replaces it passes at least NCR_EXTRA bytes when the encoder cannot
\* encode everything.  Once it has passed last = true it has no more
\* characters and keeps passing last = true until the string has ended.  A
\* panic ends the process.
EncodeSrcOf(c) == RestOf(string, consumed) \o c.chars

EncodeDstLens(op, src) ==
  {dst \in {Len(ToAscii), NCR_EXTRA + 1,
            EncodeOracleFor(op, encoder, Units(SourceOf(op), src)),
            BigEncodeDst} :
     EncodeReplacing(op) => EffectiveDstLen(encoder, dst) >= 0}

EncodeCallsOf(op) ==
  IF encode_call.res = "Panic" \/ EncodeEnded THEN {}
  ELSE UNION {
         {[op |-> op, chars |-> chars, last |-> last, dst |-> dst,
           debug |-> debug] :
            dst \in EncodeDstLens(op, RestOf(string, consumed) \o chars)} :
         chars \in (IF closing THEN {<<>>}
                    ELSE {t \in Strings : Len(string) + Len(t) <= MaxLen}),
         last \in (IF closing THEN {TRUE} ELSE BOOLEAN),
         debug \in BOOLEAN}

EncodeReturned(c) ==
  EncodeInvoke(c.op, encoder, EncodeSrcOf(c), c.dst, c.last, c.debug)

\* The caller makes call c and collects what a call that returned wrote.
EncodeDrive(c) ==
  \E r \in {EncodeReturned(c)} :
     /\ string' = string \o c.chars
     /\ closing' = c.last
     /\ consumed' = consumed + r.chars
     /\ encoded' = (IF r.res = "Panic" THEN encoded ELSE encoded \o r.bytes)
     /\ encoder' = r.encoder
     /\ encode_call' = [op |-> c.op, res |-> r.res, panic |-> r.panic,
                        src |-> EncodeSrcOf(c), dst |-> c.dst,
                        read |-> r.read, written |-> r.written,
                        bytes |-> r.bytes, unmappable |-> r.unmappable,
                        had_unmappables |-> r.had_unmappables,
                        ncrs |-> r.ncrs, room |-> r.room, last |-> c.last,
                        chars |-> r.chars,
                        before |-> encoder]
     /\ UNCHANGED <<receiver, arg, ret, decoder_vars>>

call_encode_from_utf16_without_replacement ==
  \E c \in EncodeCallsOf("encode_from_utf16_without_replacement") :
     EncodeDrive(c)

call_encode_from_utf8_without_replacement ==
  \E c \in EncodeCallsOf("encode_from_utf8_without_replacement") :
     EncodeDrive(c)

call_encode_from_utf16 ==
  \E c \in EncodeCallsOf("encode_from_utf16") : EncodeDrive(c)

call_encode_from_utf8 ==
  \E c \in EncodeCallsOf("encode_from_utf8") : EncodeDrive(c)

EncoderNext ==
  \/ call_encode_from_utf16_without_replacement
  \/ call_encode_from_utf8_without_replacement
  \/ call_encode_from_utf16
  \/ call_encode_from_utf8

EncoderSpec == EncoderInit /\ [][EncoderNext]_vars

\* C23: new_encoder() on any encoding yields an Encoder whose encoding() is
\* the receiver's output encoding: UTF-8 for the replacement encoding,
\* UTF-16BE and UTF-16LE, the receiver itself otherwise.  output_encoding is
\* idempotent, and no sequence of encode calls changes what encoding()
\* returns.
C23_EncoderOutputEncoding ==
  /\ encoder_encoding(encoder) = output_encoding(receiver)
  /\ encoder_encoding(encoder)
       = (IF receiver \in {"REPLACEMENT", "UTF_16BE", "UTF_16LE"}
          THEN "UTF_8" ELSE receiver)
  /\ output_encoding(output_encoding(receiver)) = output_encoding(receiver)

\* An Encoder made from UTF-16LE has encoded a string to its end in two
\* calls and still answers UTF-8.
C23_Witness ==
  /\ receiver = "UTF_16LE"
  /\ EncodeEnded
  /\ Len(string) = MaxLen
  /\ consumed = MaxLen
  /\ encode_call.src # string
  /\ encoder_encoding(encoder) = "UTF_8"

\* The decimal digits of n, most significant first, as ASCII bytes.
RECURSIVE Decimal(_)
Decimal(n) == IF n < 10 THEN <<48 + n>> ELSE Append(Decimal(n \div 10), 48 + (n % 10))

\* The decimal numeric character reference of the character c.
RefNcr(c) == <<38, 35>> \o Decimal(c) \o <<59>>

\* The bytes of the characters of `chars` from the encoder state v on, one
\* reference for each character the encoding cannot represent, and the state
\* after them.
RECURSIVE RefEncodeFrom(_, _, _, _)
RefEncodeFrom(v, chars, i, bytes) ==
  IF i > Len(chars) THEN [bytes |-> bytes, variant |-> v]
  ELSE LET e == EncodeChar(v, chars[i])
       IN RefEncodeFrom([v EXCEPT !.state = e.state], chars, i + 1,
                        bytes \o e.bytes \o
                        (IF e.unmappable THEN RefNcr(chars[i]) ELSE <<>>))

\* What the latest call should have written for the characters it read:
\* their bytes and references, and the return to ASCII when it ended the
\* string.
RefEncodeOfCall ==
  LET r == RefEncodeFrom(encode_call.before.variant,
                         SubSeq(encode_call.src, 1, encode_call.chars), 1, <<>>)
  IN r.bytes \o (IF EncodeEnded /\ r.variant.state = "Jis0208"
                 THEN ToAscii ELSE <<>>)

\* The characters the latest call read that its encoding cannot represent.
UnmappablesOfCall ==
  {i \in 1..encode_call.chars :
     ~can_encode_everything(encoder_encoding(encode_call.before))
     /\ EncodeChar(new_variant_encoder(encoder_encoding(encode_call.before)),
                   encode_call.src[i]).unmappable}

\* C24: encode_from_utf8 and encode_from_utf16 never surface Unmappable: the
\* call returns InputEmpty or OutputFull, what it wrote is the bytes of the
\* characters it read with one decimal reference in the place of each
\* unmappable one, and the flag it returns is true exactly when it wrote at
\* least one reference.
C24_ReplacementNeverSurfaces ==
  (encode_call.op # "none" /\ EncodeReplacing(encode_call.op)) =>
    /\ encode_call.res \in {"InputEmpty", "OutputFull"}
    /\ encode_call.bytes = RefEncodeOfCall
    /\ encode_call.had_unmappables <=> UnmappablesOfCall # {}

C25_WitnessTight ==
  /\ encode_call.op # "none"
  /\ EncodeReplacing(encode_call.op)
  /\ encode_call.had_unmappables
  /\ encode_call.room = NCR_EXTRA + 1

\* --------------------------------------------------- character references
\* write_ncr is called on a character and a slice of a destination.

\* The scalar values write_ncr is called on: the least and the greatest with
\* each number of digits, the euro sign and U+FFFD.
Scalars == {0, 9, 10, 99, 100, 999, 1000, 8364, 9999, 10000, 65533, 99999,
            100000, 999999, 1000000, 1114111}

\* What the slice holds before the call.
Fills == {Stale, 255}

\* The slices write_ncr is called on: long enough for any reference.
NcrSlices ==
  UNION {[1..n -> {f}] : n \in (NCR_EXTRA + 1)..(NCR_EXTRA + 3), f \in Fills}

NcrInit ==
  /\ DecoderUnused
  /\ EncoderUnused
  /\ arg \in [unmappable : Scalars, dst : NcrSlices, debug : BOOLEAN]
  /\ ret = [op |-> "none"]

call_write_ncr ==
  /\ ret.op = "none"
  /\ ret' = [op |-> "write_ncr",
             val |-> write_ncr(arg.unmappable, arg.dst, arg.debug)]
  /\ UNCHANGED <<arg, decoder_vars, encoder_vars>>

NcrNext == call_write_ncr

NcrSpec == NcrInit /\ [][NcrNext]_vars

\* write_ncr returned, with the reference of its character at the start of
\* dst, the rest of dst as it was, and the length of the reference.
NcrWritten ==
  /\ ~ret.val.panic
  /\ ret.val.len = 3 + Len(Decimal(arg.unmappable))
  /\ ret.val.len <= 10
  /\ ret.val.dst = RefNcr(arg.unmappable) \o Tail2(arg.dst, ret.val.len)

\* C26 as stated: for every Unicode scalar value c, write_ncr(c, dst) writes
\* '&#', the decimal digits of c without a leading zero and ';' at the start
\* of dst, leaves the rest of dst unchanged and returns 3 + the number of
\* digits, at most 10.
C26_NcrOfEveryScalar == ret.op = "write_ncr" => NcrWritten

\* C26, amended: the same for every scalar value of at least two digits
\* (c >= 10), which is what write_ncr asserts of its argument.
C26_NcrOfTwoDigitsOrMore ==
  (ret.op = "write_ncr" /\ arg.unmappable >= 10) => NcrWritten

\* write_ncr wrote '&#8364;' for the euro sign and returned 7.
C26_Witness ==
  /\ ret.op = "write_ncr"
  /\ arg.unmappable = 8364
  /\ ret.val.len = 7
  /\ SubSeq(ret.val.dst, 1, 7) = <<38, 35, 56, 51, 54, 52, 59>>
  /\ ret.val.dst[8] = 255

\* ------------------------------------------------------------ encoder sizing
\* The caller makes an Encoder and asks it for the length of a destination.

\* The source lengths the caller asks about.
SourceLengths == 0..(4 * MaxLen)

SizingInit ==
  /\ DecoderUnused
  /\ EncoderUnused
  /\ arg \in [self : Receivers, length : SourceLengths]
  /\ ret = [op |-> "none"]

call_max_buffer_length_from_utf16_if_no_unmappables ==
  /\ ret.op = "none"
  /\ ret' = [op |-> "max_buffer_length_from_utf16_if_no_unmappables",
             val |-> max_buffer_length_from_utf16_if_no_unmappables(
                       new_encoder(arg.self), arg.length),
             without |-> max_buffer_length_from_utf16_without_replacement(
                           new_encoder(arg.self), arg.length)]
  /\ UNCHANGED <<arg, decoder_vars, encoder_vars>>

call_max_buffer_length_from_utf8_if_no_unmappables ==
  /\ ret.op = "none"
  /\ ret' = [op |-> "max_buffer_length_from_utf8_if_no_unmappables",
             val |-> max_buffer_length_from_utf8_if_no_unmappables(
                       new_encoder(arg.self), arg.length),
             without |-> max_buffer_length_from_utf8_without_replacement(
                           new_encoder(arg.self), arg.length)]
  /\ UNCHANGED <<arg, decoder_vars, encoder_vars>>

SizingNext ==
  \/ call_max_buffer_length_from_utf16_if_no_unmappables
  \/ call_max_buffer_length_from_utf8_if_no_unmappables

SizingSpec == SizingInit /\ [][SizingNext]_vars

\* The answer is that of the method without replacement when the encoder's
\* encoding is UTF-8, and `reserve` more otherwise.
ExceedsBy(reserve) ==
  ret.val = ret.without
            + (IF encoder_encoding(new_encoder(arg.self)) = "UTF_8"
               THEN 0 ELSE reserve)

\* write_ncr can write the longest reference, that of U+10FFFF, into n bytes.
HoldsWorstCaseNcr(n) == ~write_ncr(1114111, Blank(n), FALSE).panic

\* C27 as stated: max_buffer_length_from_utf8_if_no_unmappables(n) and
\* max_buffer_length_from_utf16_if_no_unmappables(n) equal the corresponding
\* _without_replacement(n) when the encoder can encode everything (UTF-8) and
\* exceed it by one fixed reserve otherwise, and the reserve is enough to
\* hold one worst-case numeric character reference.
C27_ReserveHoldsWorstCaseNcr ==
  ret.op # "none" =>
    /\ ExceedsBy(NCR_EXTRA)
    /\ ret.val # ret.without => HoldsWorstCaseNcr(ret.val - ret.without)

\* C27, amended: the same with a reserve of NCR_EXTRA = 9 bytes, which does
\* not hold the worst-case reference of 10 bytes by itself and holds it
\* together with one byte of the room below the reserve.
C27_ReserveOneShortOfWorstCaseNcr ==
  ret.op # "none" =>
    /\ ExceedsBy(NCR_EXTRA)
    /\ ret.val # ret.without =>
         /\ ~HoldsWorstCaseNcr(ret.val - ret.without)
         /\ HoldsWorstCaseNcr(ret.val - ret.without + 1)

\* A windows-1252 encoder asked about 3 code units of UTF-16 answers 3 + 9.
C27_Witness ==
  /\ ret.op = "max_buffer_length_from_utf16_if_no_unmappables"
  /\ arg = [self |-> "WINDOWS_1252", length |-> 3]
  /\ ret.without = 3
  /\ ret.val = 12

\* A UTF-8 encoder made from UTF-16BE answers the same with and without.
C27_WitnessUtf8 ==
  /\ ret.op = "max_buffer_length_from_utf8_if_no_unmappables"
  /\ arg.self = "UTF_16BE"
  /\ arg.length > 0
  /\ ret.val = ret.without

\* ------------------------------------------------ caller-allocated vectors
\* The caller has a String or a Vec<u8> with some content and some spare
\* capacity and calls one of the methods that write into it.

\* What the vector holds before the call.
Contents == {<<>>, <<97, 98>>}

\* The Strings a caller decodes into: no spare capacity, the documented
\* minimum, or plenty.
DecodeVecs ==
  {Vec(b, Len(b) + spare) : b \in Contents, spare \in {0, MIN_UTF8_DST, BigDst}}

\* The Vecs a caller encodes into: no spare capacity, one byte and the
\* reserve, or plenty.
EncodeVecs ==
  {Vec(b, Len(b) + spare) :
     b \in Contents, spare \in {0, NCR_EXTRA + 1, BigEncodeDst}}

VecInit ==
  /\ DecoderUnused
  /\ EncoderUnused
  /\ arg \in [from : {"bytes"}, self : Encodings, src : Streams,
              dst : DecodeVecs, last : BOOLEAN]
         \cup [from : {"str"}, self : Receivers, src : Strings,
               dst : EncodeVecs, last : BOOLEAN, debug : BOOLEAN]
  /\ ret = [op |-> "none"]

call_decode_to_string ==
  /\ ret.op = "none"
  /\ arg.from = "bytes"
  /\ ret' = [op |-> "decode_to_string",
             val |-> DecodeToString(new_decoder(arg.self), arg.src, arg.dst,
                                    arg.last)]
  /\ UNCHANGED <<arg, decoder_vars, encoder_vars>>

call_decode_to_string_without_replacement ==
  /\ ret.op = "none"
  /\ arg.from = "bytes"
  /\ ret' = [op |-> "decode_to_string_without_replacement",
             val |-> DecodeToStringWithoutReplacement(
                       new_decoder(arg.self), arg.src, arg.dst, arg.last)]
  /\ UNCHANGED <<arg, decoder_vars, encoder_vars>>

call_encode_from_utf8_to_vec ==
  /\ ret.op = "none"
  /\ arg.from = "str"
  /\ ret' = [op |-> "encode_from_utf8_to_vec",
             val |-> encode_from_utf8_to_vec(new_encoder(arg.self), arg.src,
                                             arg.dst, arg.last, arg.debug)]
  /\ UNCHANGED <<arg, decoder_vars, encoder_vars>>

call_encode_from_utf8_to_vec_without_replacement ==
  /\ ret.op = "none"
  /\ arg.from = "str"
  /\ ret' = [op |-> "encode_from_utf8_to_vec_without_replacement",
             val |-> encode_from_utf8_to_vec_without_replacement(
                       new_encoder(arg.self), arg.src, arg.dst, arg.last)]
  /\ UNCHANGED <<arg, decoder_vars, encoder_vars>>

VecNext ==
  \/ call_decode_to_string
  \/ call_decode_to_string_without_replacement
  \/ call_encode_from_utf8_to_vec
  \/ call_encode_from_utf8_to_vec_without_replacement

VecSpec == VecInit /\ [][VecNext]_vars

\* C30: decode_to_string, decode_to_string_without_replacement,
\* encode_from_utf8_to_vec and encode_from_utf8_to_vec_without_replacement
\* treat the capacity as a hard limit and never reallocate: after a call
\* that returns, the capacity is what it was, the first old_len bytes are
\* what they were, the output of the call follows them, and the new length
\* is old_len + written, at most the capacity.
C30_CapacityIsHardLimit ==
  (ret.op # "none" /\ ret.val.res # "Panic") =>
    /\ ret.val.dst.capacity = arg.dst.capacity
    /\ Len(ret.val.dst.bytes) = Len(arg.dst.bytes) + ret.val.written
    /\ Len(ret.val.dst.bytes) <= arg.dst.capacity
    /\ SubSeq(ret.val.dst.bytes, 1, Len(arg.dst.bytes)) = arg.dst.bytes
    /\ Tail2(ret.val.dst.bytes, Len(arg.dst.bytes)) = ret.val.bytes

\* encode_from_utf8_to_vec filled a Vec that held 'ab' up to its capacity
\* and reported OutputFull.
C30_Witness ==
  /\ ret.op = "encode_from_utf8_to_vec"
  /\ arg.dst.bytes = <<97, 98>>
  /\ ret.val.res = "OutputFull"
  /\ ret.val.written > 0
  /\ Len(ret.val.dst.bytes) = arg.dst.capacity

\* decode_to_string appended to a String that held 'ab'.
C30_WitnessString ==
  /\ ret.op = "decode_to_string"
  /\ arg.dst.bytes = <<97, 98>>
  /\ ret.val.res = "InputEmpty"
  /\ ret.val.written = MaxLen
  /\ Len(ret.val.dst.bytes) = 2 + MaxLen

\* --------------------------------------------------------- one-shot encoding
\* The caller has a receiver encoding and a whole string and calls
\* Encoding::encode on them.

OneShotEncodeInit ==
  /\ DecoderUnused
  /\ EncoderUnused
  /\ arg \in [self : Receivers, string : Strings, debug : BOOLEAN]
  /\ ret = [op |-> "none"]

call_encode ==
  /\ ret.op = "none"
  /\ ret' = [op |-> "encode", val |-> encode(arg.self, arg.string, arg.debug)]
  /\ UNCHANGED <<arg, decoder_vars, encoder_vars>>

OneShotEncodeNext == call_encode

OneShotEncodeSpec == OneShotEncodeInit /\ [][OneShotEncodeNext]_vars

\* The complete encoding of the string s in the encoding enc: the bytes of
\* its characters, a reference for each character enc cannot represent, and
\* the return to ASCII at the end.
RefEncodeAll(enc, s) ==
  LET r == RefEncodeFrom(new_variant_encoder(enc), s, 1, <<>>)
  IN r.bytes \o (IF r.variant.state = "Jis0208" THEN ToAscii ELSE <<>>)

\* The string has a character the encoding enc cannot represent.
HasUnmappable(enc, s) ==
  \E i \in 1..Len(s) : EncodeChar(new_variant_encoder(enc), s[i]).unmappable

AllAscii(s) == \A i \in 1..Len(s) : s[i] < 128

C28_WitnessNotAsciiCompatible ==
  /\ ret.op = "encode"
  /\ arg.self = "ISO_2022_JP"
  /\ arg.string = <<97, 97>>
  /\ ret.val.cow = "Owned"
  /\ ret.val.bytes = <<97, 97>>
  /\ ~ret.val.had_errors

IsPowerOfTwo(n) == next_power_of_two(n) = n

\* The length the sizing oracle gives for what is left of the string after
\* its first `chars` characters.
NeededFor(chars) ==
  max_buffer_length_from_utf8_if_no_unmappables(
    new_encoder(arg.self), Units("utf8", RestOf(arg.string, chars)))

\* C29: the regrow loop of Encoding::encode terminates.  Each OutputFull is
\* followed by a strictly larger capacity, a power of two that is at least
\* the oracle's bound for the unread remainder, and by a retry on
\* s[total_read..]; what was written is preserved; the loop ends with
\* InputEmpty and total_read = s.len().
C29_RegrowLoopTerminates ==
  ret.op = "encode" =>
    /\ ~ret.val.panic
    /\ ret.val.cow \in {"Borrowed", "Owned"}
    /\ ret.val.cow = "Owned" => ret.val.chars = Len(arg.string)
    /\ \A i \in 1..Len(ret.val.regrown) :
         /\ ret.val.regrown[i].to > ret.val.regrown[i].from
         /\ IsPowerOfTwo(ret.val.regrown[i].to)
         /\ ret.val.regrown[i].to >= NeededFor(ret.val.regrown[i].chars)
         /\ ret.val.regrown[i].kept = ret.val.regrown[i].bytes
         /\ ret.val.regrown[i].bytes
              = SubSeq(ret.val.bytes, 1, Len(ret.val.regrown[i].bytes))
         /\ ret.val.regrown[i].bytes
              = RefEncodeFrom(new_variant_encoder(arg.self),
                              SubSeq(arg.string, 1, ret.val.regrown[i].chars),
                              1, <<>>).bytes
         /\ i > 1 => ret.val.regrown[i].chars >= ret.val.regrown[i - 1].chars

\* windows-1252 met OutputFull after the reference of the first of three
\* characters, went from 16 to 32 bytes and encoded the other two.
C29_Witness ==
  /\ ret.op = "encode"
  /\ arg.self = "WINDOWS_1252"
  /\ arg.string = <<12354, 97, 97>>
  /\ Len(ret.val.regrown) = 1
  /\ ret.val.regrown[1].chars = 1
  /\ ret.val.regrown[1].from = 16
  /\ ret.val.regrown[1].to = 32
  /\ ret.val.chars = 3
  /\ ret.val.cow = "Owned"

\* ------------------------------------------------- the UTF-16BE BOM's length
\* Checked under OneShotSpec.

\* The argument of the for_bom call starts with the UTF-16BE BOM, FE FF.
StartsWithUtf16BeBom ==
  /\ ret.op = "for_bom"
  /\ BeginsWith(arg.bytes, <<254, 255>>)

Constructed == call.res = "none" /\ stream = <<>>

\* C32: the life cycle of a new Decoder is determined by the BOM handling
\* and the encoding it was created with: Converting for Off; AtStart for
\* Sniff, whatever the encoding; for Remove, AtUtf8Start for UTF-8,
\* AtUtf16BeStart for UTF-16BE, AtUtf16LeStart for UTF-16LE and Converting
\* for any other encoding; and encoding() is the creating encoding.
C32_InitialLifeCycle ==
  Constructed =>
    /\ sniffing = "Off" => life_cycle = "Converting"
    /\ sniffing = "Sniff" => life_cycle = "AtStart"
    /\ sniffing = "Remove" =>
         /\ initial_encoding = "UTF_8" => life_cycle = "AtUtf8Start"
         /\ initial_encoding = "UTF_16BE" => life_cycle = "AtUtf16BeStart"
         /\ initial_encoding = "UTF_16LE" => life_cycle = "AtUtf16LeStart"
         /\ initial_encoding \notin {"UTF_8", "UTF_16BE", "UTF_16LE"} =>
              life_cycle = "Converting"
    /\ encoding_of(Decoder) = initial_encoding
    /\ Decoder = NewDecoderFor(initial_encoding, sniffing)

\* new_decoder_with_bom_removal() of UTF-16BE returned a Decoder that is at
\* AtUtf16BeStart.
C32_Witness ==
  /\ Constructed
  /\ sniffing = "Remove"
  /\ initial_encoding = "UTF_16BE"
  /\ life_cycle = "AtUtf16BeStart"
  /\ encoding = "UTF_16BE"

\* new_decoder_with_bom_removal() of windows-1252 returned a Decoder that
\* is Converting.
C32_WitnessOther ==
  /\ Constructed
  /\ sniffing = "Remove"
  /\ initial_encoding = "WINDOWS_1252"
  /\ life_cycle = "Converting"

\* ------------------------------------------------------------ the pending BB
\* Checked under Spec.

\* What a variant decoder in state v makes of `bytes` from byte i on, as the
\* text written (one U+FFFD for each malformed byte read) and the state it
\* is left in; an incomplete sequence at the end stays pending.
RECURSIVE Delivered(_, _, _, _)
Delivered(v, bytes, i, text) ==
  IF i > Len(bytes)
  THEN [text |-> text, v |-> v]
  ELSE LET r == VariantByte(v, bytes[i])
           w == [v EXCEPT !.pend = r.pend]
       IN CASE r.kind = "out" -> Delivered(w, bytes, i + 1, Append(text, r.cp))
            [] r.kind = "more" -> Delivered(w, bytes, i + 1, text)
            [] r.kind = "bad" ->
                 Delivered(w, bytes, i + 1, Append(text, REPLACEMENT_CHARACTER))
            [] r.kind = "unread" ->
                 Delivered(w, bytes, i, Append(text, REPLACEMENT_CHARACTER))

\* The step is a call of an operation without replacement that returned.
ReturnedWithoutReplacement == ~call'.replacing /\ call'.res # "Panic"

\* The bytes the call of the step has read from its src.
ReadByStep == SubSeq(stream', pos + 1, pos')

\* EF BB are withheld, the call of the step shows that no BF follows (its
\* src begins with another byte, or is empty and the last), and EF alone is
\* malformed for the variant decoder of the original encoding.
WithheldEfBbFails ==
  /\ life_cycle = "SeenUtf8Second"
  /\ ReturnedWithoutReplacement
  /\ IF Len(stream') > pos THEN stream'[pos + 1] # 191 ELSE eof'
  /\ VariantByte(variant, 239).kind = "bad"

\* The step enters ConvertingWithPendingBB: EF is reported as Malformed, no
\* byte of src is read, and BB is still to be delivered.
EntersPendingBB ==
  /\ life_cycle' = "ConvertingWithPendingBB"
  /\ call'.res = "Malformed"
  /\ call'.seq = VariantByte(variant, 239).seq
  /\ pos' = pos
  /\ out' = Append(out, REPLACEMENT_CHARACTER)
  /\ variant'.pend = <<>>

\* The step delivers BB and then what it reads of src, each once and in
\* that order: the text and the variant decoder after the step are those of
\* BB followed by the bytes read, and the life cycle is Converting.
DeliversPendingBB ==
  LET t == Delivered(variant, <<187>> \o ReadByStep, 1, <<>>)
      flushed == call'.res = "Malformed" /\ t.v.pend # <<>>
  IN /\ life_cycle' = "Converting"
     /\ out' = out \o t.text \o
               (IF flushed THEN <<REPLACEMENT_CHARACTER>> ELSE <<>>)
     /\ variant' = (IF flushed THEN [t.v EXCEPT !.pend = <<>>] ELSE t.v)
     /\ encoding' = initial_encoding

\* The stream begins with EF BB and not with EF BB BF, and the Decoder
\* sniffs for an encoding for which EF alone is malformed.
RejectedEfBb ==
  /\ sniffing = "Sniff"
  /\ StartsWith(stream, <<239, 187>>)
  /\ ~StartsWith(stream, <<239, 187, 191>>)
  /\ VariantByte(new_variant_decoder(initial_encoding), 239).kind = "bad"

\* C33: when EF BB are withheld, the next byte is not BF and the replay of
\* EF into the original encoding's variant decoder returns Malformed before
\* BB is delivered, the Decoder enters ConvertingWithPendingBB, which is not
\* entered in any other way; the next call delivers BB once and before the
\* bytes of its src and leaves the Decoder Converting; and at the end of the
\* stream the text holds what BB decodes to exactly once, as the text of the
\* whole stream in the original encoding does.
C33_PendingBBDeliveredOnce ==
  /\ [][/\ WithheldEfBbFails => EntersPendingBB
        /\ (life_cycle' = "ConvertingWithPendingBB" /\ call'.res # "Panic"
              /\ life_cycle # "ConvertingWithPendingBB")
             => WithheldEfBbFails
        /\ (life_cycle = "ConvertingWithPendingBB" /\ ReturnedWithoutReplacement)
             => DeliversPendingBB]_vars
  /\ [](RejectedEfBb /\ Ended
          => out = Delivered(new_variant_decoder(initial_encoding), stream, 1,
                             <<>>).text)

\* An ISO-2022-JP Decoder that had withheld EF BB was given `a`: it has
\* reported EF as Malformed, read nothing of src and holds BB pending.
C33_Witness ==
  /\ life_cycle = "ConvertingWithPendingBB"
  /\ initial_encoding = "ISO_2022_JP"
  /\ stream = <<239, 187, 97>>
  /\ pos = 2
  /\ call.res = "Malformed"
  /\ out = <<REPLACEMENT_CHARACTER>>

\* The same Decoder after the next call: BB has been delivered and reported
\* as Malformed, `a` is still unread, and the Decoder is Converting.
C33_WitnessDelivered ==
  /\ life_cycle = "Converting"
  /\ initial_encoding = "ISO_2022_JP"
  /\ sniffing = "Sniff"
  /\ stream = <<239, 187, 97>>
  /\ pos = 2
  /\ call.res = "Malformed"
  /\ out = <<REPLACEMENT_CHARACTER, REPLACEMENT_CHARACTER>>

\* ------------------------------------------------ replacement by the caller
\* A caller that does for itself what the operations with replacement do,
\* on top of the operations without replacement.  One specification holds
\* the Decoder and its caller and the Encoder and its caller; each state has
\* one of the two at work.

WrapperInit == Init \/ EncoderInit

WrapperNext ==
  \/ EncoderUnused /\ decode_to_utf16_without_replacement
  \/ EncoderUnused /\ decode_to_utf8_without_replacement
  \/ EncoderUnused /\ decode_to_utf16
  \/ EncoderUnused /\ decode_to_utf8
  \/ DecoderUnused /\ call_encode_from_utf16_without_replacement
  \/ DecoderUnused /\ call_encode_from_utf8_without_replacement
  \/ DecoderUnused /\ call_encode_from_utf16
  \/ DecoderUnused /\ call_encode_from_utf8

WrapperSpec == WrapperInit /\ [][WrapperNext]_vars

\* The caller of decode_to_utf*_without_replacement with the Decoder d, the
\* input src and a destination of dst code units, after it has had `read`
\* bytes read and has `text` in its destination: it passes the rest of src
\* and the rest of the destination, and on Malformed appends one U+FFFD
\* and passes the rest again.  It cannot go on ("Panic") when the call did
\* not return or when the destination has no room for the U+FFFD.
RECURSIVE CallerDecode(_, _, _, _, _, _, _)
CallerDecode(d, src, dst, last, target, read, text) ==
  The({
    CASE r.res = "Panic" ->
           [res |-> "Panic", read |-> read, text |-> text, d |-> d]
      [] r.res = "Malformed" ->
           IF dst - Units(target, text \o r.text)
                < UnitLen(target, REPLACEMENT_CHARACTER)
           THEN [res |-> "Panic", read |-> read, text |-> text, d |-> d]
           ELSE CallerDecode(r.d, src, dst, last, target, read + r.read,
                             Append(text \o r.text, REPLACEMENT_CHARACTER))
      [] OTHER ->
           [res |-> r.res, read |-> read + r.read, text |-> text \o r.text,
            d |-> r.d]
    : r \in {decode_without_replacement(d, Tail2(src, read),
                                        dst - Units(target, text), last,
                                        target)}})

\* The call of the operation with replacement and the caller's loop end
\* alike: both fail, or both give the same result, read count, text and
\* Decoder.
SameDecoding(single, driven) ==
  /\ single.res = driven.res
  /\ single.res # "Panic" =>
       /\ single.read = driven.read
       /\ single.text = driven.text
       /\ single.written = Units("utf8", driven.text)
            \/ single.written = Units("utf16", driven.text)
       /\ single.d = driven.d
       /\ single.had_errors = (Count(driven.text, REPLACEMENT_CHARACTER) > 0)

\* Every decode_to_utf8 and decode_to_utf16 call the caller of the Decoder
\* can make next ends as the caller's loop over the operation without
\* replacement does on the same Decoder, src and destination.
DecodeAsCallerWould ==
  EncoderUnused =>
    \A op \in {"decode_to_utf8", "decode_to_utf16"} :
      \A c \in CallsOf(op) :
        SameDecoding(Invoke(op, Decoder, SrcOf(c), c.dst, c.last),
                     CallerDecode(Decoder, SrcOf(c), c.dst, c.last,
                                  TargetOf(op), 0, <<>>))

\* The caller of encode_from_utf8_without_replacement with the Encoder e, the
\* string src and a destination of dst bytes, after `chars` characters were
\* read and with `bytes` in its destination: it passes the rest of src and
\* the destination from what it has written up to limit, and on Unmappable
\* writes the character's reference after what it has written and passes
\* the rest again; it stops with OutputFull when the reference ends at or
\* past limit, and cannot go on ("Panic") when limit is before what it has
\* written or the reference does not fit in the destination.
RECURSIVE CallerEncode(_, _, _, _, _, _, _)
CallerEncode(e, src, dst, limit, last, chars, bytes) ==
  IF limit < Len(bytes)
  THEN [res |-> "Panic", chars |-> chars, bytes |-> bytes, encoder |-> e]
  ELSE The({
    IF r.res \in {"InputEmpty", "OutputFull"}
    THEN [res |-> r.res, chars |-> chars + r.chars, bytes |-> bytes \o r.bytes,
          encoder |-> r.encoder]
    ELSE IF Len(bytes \o r.bytes \o RefNcr(r.unmappable)) > dst
    THEN [res |-> "Panic", chars |-> chars, bytes |-> bytes, encoder |-> e]
    ELSE IF Len(bytes \o r.bytes \o RefNcr(r.unmappable)) >= limit
    THEN [res |-> "OutputFull", chars |-> chars + r.chars,
          bytes |-> bytes \o r.bytes \o RefNcr(r.unmappable),
          encoder |-> r.encoder]
    ELSE CallerEncode(r.encoder, src, dst, limit, last, chars + r.chars,
                      bytes \o r.bytes \o RefNcr(r.unmappable))
    : r \in {encode_without_replacement(e, RestOf(src, chars),
                                        limit - Len(bytes), last, "utf8")}})

\* The latest call of the Encoder was encode_from_utf8, and it ended as the
\* caller's loop with the given limit does on the same Encoder, src and
\* destination.  No character of the model is encoded with the byte 38
\* (`&`), so that the caller has written a reference iff its bytes hold one.
EncodeAsCallerWould(limit) ==
  encode_call.op = "encode_from_utf8" =>
    \E driven \in {CallerEncode(encode_call.before, encode_call.src,
                                encode_call.dst, limit, encode_call.last, 0,
                                <<>>)} :
       /\ encode_call.res = driven.res
       /\ encode_call.res # "Panic" =>
            /\ encode_call.chars = driven.chars
            /\ encode_call.bytes = driven.bytes
            /\ encoder = driven.encoder
            /\ encode_call.had_unmappables = (Count(driven.bytes, 38) > 0)

\* C34, as stated: a decode_to_utf8 or decode_to_utf16 call ends as a caller
\* does that drives the operation without replacement on the same input and
\* destination and appends one U+FFFD on every Malformed; and an
\* encode_from_utf8 call ends as a caller does that drives
\* encode_from_utf8_without_replacement on the same input and destination
\* and writes the numeric character reference on every Unmappable.
C34_ReplacingAsCallerDriven ==
  /\ DecodeAsCallerWould
  /\ encode_call.op = "encode_from_utf8" => EncodeAsCallerWould(encode_call.dst)

\* C34, amended: the decoding half as stated; an encode_from_utf8 call ends
\* as a caller does that confines the operation without replacement to the
\* destination without its last NCR_EXTRA bytes (to the whole destination
\* for UTF-8), writes the reference on every Unmappable and stops with
\* OutputFull when a reference ends at or past that limit.
C34_ReplacingAsCallerDrivenWithReserve ==
  /\ DecodeAsCallerWould
  /\ encode_call.op = "encode_from_utf8" =>
       EncodeAsCallerWould(
         encode_call.dst
           - (IF encoder_encoding(encode_call.before) = "UTF_8" THEN 0
              ELSE NCR_EXTRA))

\* encode_from_utf8 of a windows-1252 Encoder with a destination of 10 bytes
\* wrote the reference of U+3042 and returned OutputFull with `a` unread,
\* which a caller with the whole destination would have written.
C34_Witness ==
  /\ encode_call.op = "encode_from_utf8"
  /\ receiver = "WINDOWS_1252"
  /\ encode_call.src = <<12354, 97>>
  /\ encode_call.dst = NCR_EXTRA + 1
  /\ encode_call.res = "OutputFull"
  /\ encode_call.chars = 1
  /\ encode_call.bytes = RefNcr(12354)

\* decode_to_utf8 of a UTF-8 Decoder replaced two malformed bytes in one
\* call.
C34_WitnessDecoder ==
  /\ call.replacing
  /\ call.res = "InputEmpty"
  /\ call.mal = 2
  /\ initial_encoding = "UTF_8"
  /\ stream = <<255, 97, 255>>
  /\ out = <<REPLACEMENT_CHARACTER, 97, REPLACEMENT_CHARACTER>>

\* ------------------------------------------------------ room for the U+FFFD
\* Checked under Spec.

\* The call r of an operation with replacement stopped at the write of a
\* U+FFFD: it had a Malformed to handle and no room at total_written.
StoppedAtReplacement(r) == r.res = "Panic" /\ r.had_errors

C35_WitnessReplayed ==
  /\ initial_encoding = "ISO_2022_JP"
  /\ sniffing = "Sniff"
  /\ stream = <<239, 187, 97>>
  /\ call.replacing
  /\ call.res = "OutputFull"
  /\ call.mal = 2
  /\ pos = 2
  /\ out = <<REPLACEMENT_CHARACTER, REPLACEMENT_CHARACTER>>

\* -------------------------------------------------------- decoding to a str
\* The caller has a new Decoder and a str of valid UTF-8 as destination and
\* makes one call of decode_to_str or decode_to_str_without_replacement.

\* The bytes of the strs used as destinations: ASCII only, a three-byte
\* character first, last and twice, two two-byte characters, and the
\* four-byte form of U+10FFFF alone and between ASCII.
StrDsts ==
  {<<97, 97, 97, 97>>, <<226, 130, 172, 97>>, <<97, 226, 130, 172>>,
   <<195, 169, 195, 169>>, <<244, 143, 191, 191>>,
   <<226, 130, 172, 226, 130, 172>>, <<97, 244, 143, 191, 191, 97>>}

StrInit ==
  /\ DecoderUnused
  /\ EncoderUnused
  /\ arg \in [self : Encodings, sniffing : BomHandling, src : Streams,
              dst : StrDsts, last : BOOLEAN]
  /\ ret = [op |-> "none"]

call_decode_to_str ==
  /\ ret.op = "none"
  /\ ret' = [op |-> "decode_to_str",
             val |-> decode_to_str(NewDecoderFor(arg.self, arg.sniffing),
                                   arg.src, arg.dst, arg.last)]
  /\ UNCHANGED <<arg, decoder_vars, encoder_vars>>

call_decode_to_str_without_replacement ==
  /\ ret.op = "none"
  /\ ret' = [op |-> "decode_to_str_without_replacement",
             val |-> decode_to_str_without_replacement(
                       NewDecoderFor(arg.self, arg.sniffing), arg.src, arg.dst,
                       arg.last)]
  /\ UNCHANGED <<arg, decoder_vars, encoder_vars>>

StrNext ==
  \/ call_decode_to_str
  \/ call_decode_to_str_without_replacement

StrSpec == StrInit /\ [][StrNext]_vars

\* bytes is valid UTF-8 from its first byte to its last.
IsValidUtf8(bytes) == utf8_valid_up_to(bytes) = Len(bytes)

\* The number of UTF-8 continuation bytes (80..BF) that follow one another
\* in bytes from the index `from` on, counted from 0.
ContinuationRun(bytes, from) ==
  Cardinality({k \in 1..(Len(bytes) - from) :
                 \A j \in 1..k : bytes[from + j] \in 128..191})

\* What the decode_to_utf8* call under the call made returns for the same
\* Decoder, src and destination length.
UnderlyingOfStrCall ==
  IF ret.op = "decode_to_str"
  THEN Invoke("decode_to_utf8", NewDecoderFor(arg.self, arg.sniffing), arg.src,
              Len(arg.dst), arg.last)
  ELSE Invoke("decode_to_utf8_without_replacement",
              NewDecoderFor(arg.self, arg.sniffing), arg.src, Len(arg.dst),
              arg.last)

C36_WitnessMalformed ==
  /\ ret.op = "decode_to_str_without_replacement"
  /\ arg.self = "UTF_8"
  /\ arg.src = <<97, 255>>
  /\ arg.dst = <<97, 244, 143, 191, 191, 97>>
  /\ ret.val.res = "Malformed"
  /\ ret.val.written = 1
  /\ ret.val.dst = <<97, 244, 143, 191, 191, 97>>

\* ------------------------------------------- the range handed to the encoder
\* C37: in encode_from_utf8 and in encode_from_utf16 every delegation to
\* the operation without replacement gets dst[total_written..
\* effective_dst_len] with total_written <= effective_dst_len: no call stops
\* at taking that slice, however many unmappable characters it meets, and a
\* call that wrote a reference up to or past effective_dst_len returned
\* OutputFull.
C37_DelegationRangeInOrder ==
  (encode_call.op # "none" /\ EncodeReplacing(encode_call.op)) =>
    /\ encode_call.panic # "slice"
    /\ (/\ encode_call.res # "Panic"
        /\ encode_call.ncrs > 0
        /\ encode_call.written >= EffectiveDstLen(encode_call.before,
                                                  encode_call.dst))
         => encode_call.res = "OutputFull"

\* ------------------------------------------------------ short destinations
\* The caller has a new Encoder and makes one call that replaces with a
\* destination of at most NCR_EXTRA bytes, in a build with or without
\* debug assertions.

ShortDsts == 0..NCR_EXTRA

ShortDstInit ==
  /\ DecoderUnused
  /\ EncoderUnused
  /\ arg \in [self : Receivers, src : Strings, dst : ShortDsts,
              last : BOOLEAN, debug : BOOLEAN]
  /\ ret = [op |-> "none"]

short_encode_from_utf16 ==
  /\ ret.op = "none"
  /\ ret' = [op |-> "encode_from_utf16",
             val |-> encode_from_utf16(new_encoder(arg.self), arg.src,
                                       arg.dst, arg.last, arg.debug)]
  /\ UNCHANGED <<arg, decoder_vars, encoder_vars>>

short_encode_from_utf8 ==
  /\ ret.op = "none"
  /\ ret' = [op |-> "encode_from_utf8",
             val |-> encode_from_utf8(new_encoder(arg.self), arg.src,
                                      arg.dst, arg.last, arg.debug)]
  /\ UNCHANGED <<arg, decoder_vars, encoder_vars>>

ShortDstNext ==
  \/ short_encode_from_utf16
  \/ short_encode_from_utf8

ShortDstSpec == ShortDstInit /\ [][ShortDstNext]_vars

\* C38: encode_from_utf8 and encode_from_utf16 compute dst.len() - NCR_EXTRA
\* without underflow: with an encoder of an encoding that cannot encode
\* everything, a call with a destination of fewer than NCR_EXTRA = 9 bytes,
\* the empty one included, returns OutputFull or InputEmpty; it neither
\* wraps around nor panics.
C38_ShortDstReturns ==
  (/\ ret.op # "none"
   /\ ~can_encode_everything(output_encoding(arg.self))
   /\ arg.dst < NCR_EXTRA)
    => /\ ret.val.res \in {"OutputFull", "InputEmpty"}
       /\ ret.val.panic = "none"

\* ------------------------------------------------ the order of the life cycle
\* How far a life cycle state is: the start states, the states of a partly
\* matched BOM, ConvertingWithPendingBB, Converting, Finished.
LifeCycleRank(lc) ==
  CASE lc \in {"AtStart", "AtUtf8Start", "AtUtf16BeStart", "AtUtf16LeStart"} -> 0
    [] lc \in {"SeenUtf8First", "SeenUtf8Second", "SeenUtf16BeFirst",
               "SeenUtf16LeFirst"} -> 1
    [] lc = "ConvertingWithPendingBB" -> 2
    [] lc = "Converting" -> 3
    [] lc = "Finished" -> 4

\* A call never takes the life cycle back, and leaves it alone or at
\* Finished once it is Converting.
LifeCycleForward ==
  /\ LifeCycleRank(life_cycle') >= LifeCycleRank(life_cycle)
  /\ life_cycle = "SeenUtf8Second" => life_cycle' # "SeenUtf8First"
  /\ LifeCycleRank(life_cycle) = 0 /\ LifeCycleRank(life_cycle') = 0
       => life_cycle' = life_cycle
  /\ life_cycle' = "ConvertingWithPendingBB"
       => life_cycle \in {"SeenUtf8Second", "ConvertingWithPendingBB"}
            \/ LifeCycleRank(life_cycle) = 0

\* A call changes encoding() only at a BOM: in Sniff mode, before
\* Converting, from the encoding the Decoder was made for to the BOM's, and
\* the Decoder is Converting or Finished afterwards.
EncodingChangesAtBom ==
  encoding' # encoding =>
    /\ sniffing = "Sniff"
    /\ LifeCycleRank(life_cycle) <= 1
    /\ LifeCycleRank(life_cycle') >= 3
    /\ encoding = initial_encoding
    /\ encoding' \in {"UTF_8", "UTF_16LE", "UTF_16BE"}

\* With the Decoder Converting, a call without replacement returns what the
\* variant decoder returns for the same src, dst and last.
ConvertingPassesThrough ==
  life_cycle = "Converting" =>
    \A op \in {"decode_to_utf16_without_replacement",
               "decode_to_utf8_without_replacement"} :
       \A c \in CallsOf(op) :
          \E r \in {Returned(c)} :
             \E v \in {decode_raw(variant, SrcOf(c), c.dst, c.last, TargetOf(op))} :
                /\ r.res = v.res
                /\ r.read = v.read
                /\ r.text = v.text
                /\ r.d.variant = v.v
                /\ r.d.encoding = encoding

\* C39: the life cycle only moves forward, from a start state through the
\* states of a partly matched BOM to Converting (possibly through
\* ConvertingWithPendingBB) and then Finished; once Converting is reached
\* no earlier state is entered again and every call passes through to the
\* variant decoder; encoding() changes at most once, only before Converting
\* is reached, only in Sniff mode and only to UTF-8, UTF-16LE or UTF-16BE.
C39_LifeCycleOnlyForward ==
  /\ [][LifeCycleForward /\ EncodingChangesAtBom]_vars
  /\ [](ConvertingPassesThrough)
  /\ [](encoding # initial_encoding =>
          /\ sniffing = "Sniff"
          /\ LifeCycleRank(life_cycle) >= 3
          /\ encoding \in {"UTF_8", "UTF_16LE", "UTF_16BE"})

\* A windows-1252 Decoder in Sniff mode was given the UTF-8 BOM over more
\* than one call, became a UTF-8 Decoder and is Finished.
C39_Witness ==
  /\ initial_encoding = "WINDOWS_1252"
  /\ sniffing = "Sniff"
  /\ stream = <<239, 187, 191>>
  /\ pos = 3
  /\ encoding = "UTF_8"
  /\ life_cycle = "Finished"
  /\ Ended

\* A Decoder went on Converting with bytes still to come after a BOM of
\* another encoding than its own.
C39_WitnessConverting ==
  /\ initial_encoding = "UTF_8"
  /\ encoding = "UTF_16BE"
  /\ life_cycle = "Converting"
  /\ ~eof
  /\ Len(stream) = MaxLen

\* ------------------------------------------------- the buffer of for_label
\* The bytes of the label that for_label stores: those from the first that
\* is no whitespace up to the next whitespace or the end.
RECURSIVE SkipLabelWhitespace(_)
SkipLabelWhitespace(label) ==
  IF label # <<>> /\ IsLabelWhitespace(Head(label))
  THEN SkipLabelWhitespace(Tail(label)) ELSE label

RECURSIVE UpToLabelWhitespace(_)
UpToLabelWhitespace(label) ==
  IF label = <<>> \/ IsLabelWhitespace(Head(label)) THEN <<>>
  ELSE <<Head(label)>> \o UpToLabelWhitespace(Tail(label))

TokenOf(label) == UpToLabelWhitespace(SkipLabelWhitespace(label))

\* C40: for every byte string given to for_label, of any length and with
\* any bytes, every write to the trimmed buffer is at an index below
\* LONGEST_LABEL_LENGTH = 19, byte + 0x20 stays a byte wherever it is
\* computed, and the call returns Some or None without a panic; a token of
\* 19 bytes or more gives None.
C40_ForLabelStaysInBuffer ==
  ret.op = "for_label" =>
    /\ ~ret.val.panic
    /\ \A i \in 1..Len(arg) :
         /\ arg[i] \in 0..255
         /\ Stored(arg[i]) \in 0..255
         /\ arg[i] \in 65..90 => arg[i] + 32 <= 255
    /\ Len(TokenOf(arg)) >= LONGEST_LABEL_LENGTH => ~ret.val.some
    /\ ret.val.some => Len(TokenOf(arg)) < LONGEST_LABEL_LENGTH

\* for_label has returned None for a token of 40 upper-case letters with
\* whitespace before it.
C40_Witness ==
  /\ ret.op = "for_label"
  /\ Len(arg) > 2 * LONGEST_LABEL_LENGTH
  /\ IsLabelWhitespace(arg[1])
  /\ \A i \in 2..Len(arg) : arg[i] \in 65..90
  /\ ret.val = NoEncoding

\* for_label has returned None for bytes above the ASCII range.
C40_WitnessHighBytes ==
  /\ ret.op = "for_label"
  /\ arg = <<255, 64, 91, 0, 128>>
  /\ ret.val = NoEncoding

====
